---- MODULE Spec2Model ----
(***************************************************************************)
(* Model of the permacomputing-club static site generator: the slug        *)
(* generator (utils/index.ts), the slug map builder (scripts/arena.ts),    *)
(* the slug-map persistence (scripts/slug.ts) and the build orchestrator   *)
(* (build.ts, index.ts).                                                   *)
(*                                                                         *)
(* Text is a sequence of one-character strings while it is being           *)
(* transformed; Str turns such a sequence into a name (a TLA+ string) once *)
(* it is used as a map key or a path component.                            *)
(***************************************************************************)
EXTENDS Integers, Sequences, FiniteSets, TLC

VARIABLES
    sIn,          \* slug generator: the text handed to generateSlug
    sOut,         \* slug generator: generateSlug(sIn)
    sOut2,        \* slug generator: generateSlug(generateSlug(sIn))
    sPc,          \* slug generator: "in" | "once" | "twice"
    pc,           \* position of the build process (index.ts main / buildStaticSite)
    responses,    \* replies of the transports to this call of fetchChannelData
    channelData,  \* the channel fetchChannelData returned
    slugMap,      \* the in-memory Map<string, ArenaItem>, in insertion order
    entryIdx,     \* generateItemPages: number of slug-map entries already handled
    mappingFile,  \* slug-mappings.json: [exists, content]
    buildDir,     \* the output directory: [exists, files], files: path -> content
    written,      \* paths of the page writes of the running build, in order
    stepLog,      \* steps of generateStaticPages that completed in the running build
    exitCode,     \* status the process exited with, -1 while it has not exited
    feed,         \* what generateRSSFeed returned in the running build
    arg,          \* function under check: the argument it is called with
    ret,          \* function under check: what it has returned so far
    fPc,          \* function under check: position of its caller
    poller,       \* poll-arena.js: the count file, the channel and the running poll
    sizing        \* build.ts and utils/size: pages written, measurements started

slugVars == <<sIn, sOut, sOut2, sPc>>
buildVars == <<pc, responses, channelData, slugMap, entryIdx, mappingFile,
               buildDir, written, stepLog, exitCode, feed>>
funVars == <<arg, ret, fPc>>
pollVars == <<poller>>
sizeVars == <<sizing>>
vars == <<sIn, sOut, sOut2, sPc, pc, responses, channelData, slugMap, entryIdx,
          mappingFile, buildDir, written, stepLog, exitCode, feed, arg, ret, fPc,
          poller, sizing>>

\* the variables a specification leaves alone
outsideBuild == <<slugVars, funVars, pollVars, sizeVars>>
outsideSlug == <<buildVars, funVars, pollVars, sizeVars>>
outsideFun == <<slugVars, buildVars, pollVars, sizeVars>>
outsidePoll == <<slugVars, buildVars, funVars, sizeVars>>
outsideSize == <<slugVars, buildVars, funVars, pollVars>>

(***************************************************************************)
(* Bounds and program constants                                            *)
(***************************************************************************)
\* longest text the slug generator is tried on
MaxLen == 5
\* longest text tried behind a run of letters that reaches the length limit
MaxTail == 2
\* most items a fetched channel holds
MaxItems == 2
\* utils/index.ts: .substring(0, 100)
SlugMaxLen == 100
\* most slug-map entries generateItemPages is followed over when the content
\* of the items is classified
MaxEntries == 2
\* most attributes and anchor boundaries of the html addTargetBlankToExternalLinks
\* is tried on
MaxPieces == 3
\* most items the channel holds while it is polled
MaxCount == 2
\* most item pages a build writes while its size measurements are followed
MaxPages == 2
\* most lines of a description processItemDescription is tried on
MaxLines == 3
\* most pieces of a template renderTemplate is tried on
MaxTokens == 2

(***************************************************************************)
(* Characters                                                              *)
(***************************************************************************)
LowerLetters == {"a", "b", "d", "e", "i", "l", "n", "o", "p", "t", "u"}
UpperLetters == {"A", "B", "O", "P", "T"}
Digits == {"0", "1", "2", "3", "4", "5", "6", "7", "8", "9"}
\* \s of the regular expressions
Whitespace == {" ", "\n"}
\* characters outside [\w\s-]
Punctuation == {"!", "#"}

IsWordChar(c) == c \in LowerLetters \cup UpperLetters \cup Digits \cup {"_"}
IsSeparator(c) == c \in Whitespace \cup {"_", "-"}

\* String.prototype.toLowerCase on one character
toLowerCaseChar(c) ==
    CASE c = "A" -> "a"
      [] c = "B" -> "b"
      [] c = "O" -> "o"
      [] c = "P" -> "p"
      [] c = "T" -> "t"
      [] OTHER -> c

\* the name a character sequence spells
RECURSIVE Str(_)
Str(s) == IF s = <<>> THEN "" ELSE Head(s) \o Str(Tail(s))

\* String.prototype.trim() !== "" is false
IsBlank(s) == \A i \in 1..Len(s) : s[i] \in Whitespace

(***************************************************************************)
(* generateSlug, one operator per method call of the chain                 *)
(***************************************************************************)
toLowerCase(s) == [i \in 1..Len(s) |-> toLowerCaseChar(s[i])]

\* .replace(/[^\w\s-]/g, "")
removeNonWord(s) ==
    SelectSeq(s, LAMBDA c : IsWordChar(c) \/ c \in Whitespace \/ c = "-")

\* .replace(/[\s_-]+/g, "-"): a separator is kept, as a hyphen, only when it
\* starts a run of separators
collapseSeparators(s) ==
    LET marked == [i \in 1..Len(s) |-> <<s[i], i > 1 /\ IsSeparator(s[i - 1])>>]
        kept == SelectSeq(marked, LAMBDA m : ~IsSeparator(m[1]) \/ ~m[2])
    IN  [i \in 1..Len(kept) |-> IF IsSeparator(kept[i][1]) THEN "-" ELSE kept[i][1]]

\* .replace(/^-+|-+$/g, "")
trimHyphens(s) ==
    LET nonHyphen == {i \in 1..Len(s) : s[i] # "-"}
    IN  IF nonHyphen = {} THEN <<>>
        ELSE LET lo == CHOOSE i \in nonHyphen : \A j \in nonHyphen : i <= j
                 hi == CHOOSE i \in nonHyphen : \A j \in nonHyphen : j <= i
             IN  SubSeq(s, lo, hi)

\* .replace(/^\d+[_-]/, ""): not global, so it is applied once, to the longest
\* leading run of digits when a hyphen or underscore follows it
stripLeadingNumber(s) ==
    LET nonDigit == {i \in 1..Len(s) : s[i] \notin Digits}
    IN  IF nonDigit = {} THEN s
        ELSE LET k == CHOOSE i \in nonDigit : \A j \in nonDigit : i <= j
             IN  IF k > 1 /\ s[k] \in {"_", "-"}
                 THEN SubSeq(s, k + 1, Len(s))
                 ELSE s

\* .substring(0, 100)
truncate(s) == IF Len(s) > SlugMaxLen THEN SubSeq(s, 1, SlugMaxLen) ELSE s

generateSlug(str) ==
    truncate(stripLeadingNumber(trimHyphens(collapseSeparators(
        removeNonWord(toLowerCase(str))))))

\* ^[a-z0-9]+(-[a-z0-9]+)*$
MatchesSlugPattern(s) ==
    /\ s # <<>>
    /\ \A i \in 1..Len(s) : s[i] \in LowerLetters \cup Digits \cup {"-"}
    /\ s[1] # "-"
    /\ s[Len(s)] # "-"
    /\ \A i \in 1..(Len(s) - 1) : ~(s[i] = "-" /\ s[i + 1] = "-")

(***************************************************************************)
(* The texts the slug generator is tried on: every text of up to MaxLen    *)
(* characters over SlugAlphabet, and every text of up to MaxTail           *)
(* characters behind a run of letters that brings it to the length limit.  *)
(***************************************************************************)
SlugAlphabet == {"B", "1", "-", "_", " ", "!"}

RECURSIVE TextsUpTo(_)
TextsUpTo(n) ==
    IF n = 0 THEN {<<>>}
    ELSE LET shorter == TextsUpTo(n - 1)
         IN  shorter \cup {Append(t, c) : t \in shorter, c \in SlugAlphabet}

Padding(n) == [i \in 1..n |-> "a"]

SlugInputs ==
    TextsUpTo(MaxLen)
        \cup {Padding(SlugMaxLen - 1) \o t : t \in TextsUpTo(MaxTail)}

(***************************************************************************)
(* Items and channels                                                      *)
(***************************************************************************)
\* the fields of the items a channel is made of; an absent title, content or
\* description is the empty text, which the code treats like ""; created_at
\* and updated_at are the times the date strings stand for
ItemShapes ==
    { [title |-> <<"A">>, content |-> <<>>, class |-> "Text",
       description |-> <<>>,
       created_at |-> 2, updated_at |-> 2],
      [title |-> <<" ">>, content |-> <<"a", "!">>, class |-> "Link",
       description |-> <<"p", "i", "n", ":", " ", "t", "o", "p">>,
       created_at |-> 1, updated_at |-> 3],
      [title |-> <<>>, content |-> <<" ">>, class |-> "Image",
       description |-> <<"a", "\n", " ", "P", "i", "n", ":", "T", "O", "P">>,
       created_at |-> 3, updated_at |-> 1],
      [title |-> <<"!">>, content |-> <<"b">>, class |-> "Text",
       description |-> <<"p", "i", "n", ":", " ", "t", "o">>,
       created_at |-> 3, updated_at |-> 2] }

ArenaItem(id, shape) ==
    [id |-> id, title |-> shape.title, content |-> shape.content,
     class |-> shape.class, description |-> shape.description,
     created_at |-> shape.created_at, updated_at |-> shape.updated_at]

\* the item collections of up to MaxItems items; the identifier of an item is
\* its position, so identifiers are unique within a channel
Contents ==
    UNION { { [i \in 1..n |-> ArenaItem(i, f[i])] : f \in [1..n -> ItemShapes] }
            : n \in 0..MaxItems }

\* a channel record; hasContents is FALSE for a reply without a contents array
ArenaChannels ==
    { [hasContents |-> TRUE, contents |-> c] : c \in Contents }
        \cup { [hasContents |-> FALSE, contents |-> <<>>] }

NoChannel == [hasContents |-> FALSE, contents |-> <<>>]

\* `${item.id}`
DigitChar(d) ==
    CASE d = 0 -> "0" [] d = 1 -> "1" [] d = 2 -> "2" [] d = 3 -> "3"
      [] d = 4 -> "4" [] d = 5 -> "5" [] d = 6 -> "6" [] d = 7 -> "7"
      [] d = 8 -> "8" [] OTHER -> "9"

RECURSIVE numberToText(_)
numberToText(n) ==
    IF n < 10 THEN <<DigitChar(n)>>
    ELSE Append(numberToText(n \div 10), DigitChar(n % 10))

untitled(id) == <<"u", "n", "t", "i", "t", "l", "e", "d", "-">> \o numberToText(id)

(***************************************************************************)
(* The slug source, as each of its three users computes it                 *)
(***************************************************************************)
\* ArenaService.createSlugMap
createSlugMapSource(item) ==
    IF item.title # <<>> /\ ~IsBlank(item.title) THEN item.title
    ELSE IF item.content # <<>> /\ ~IsBlank(item.content) THEN item.content
    ELSE untitled(item.id)

\* the source with content preferred to the title
saveSlugMappingsSourceContentFirst(item) ==
    IF item.content # <<>> /\ ~IsBlank(item.content) THEN item.content
    ELSE IF item.title # <<>> /\ ~IsBlank(item.title) THEN item.title
    ELSE untitled(item.id)

\* Slug.saveSlugMappings
saveSlugMappingsSource(item) ==
    IF item.title # <<>> /\ ~IsBlank(item.title) THEN item.title
    ELSE IF item.content # <<>> /\ ~IsBlank(item.content) THEN item.content
    ELSE untitled(item.id)

\* a source that ignores the title and the content
renderHomePageSourceIdOnly(item) == untitled(item.id)

\* renderHomePage
renderHomePageSource(item) ==
    IF item.title # <<>> /\ ~IsBlank(item.title)
    THEN item.title
    ELSE IF item.content # <<>> /\ ~IsBlank(item.content)
         THEN item.content
         ELSE untitled(item.id)

(***************************************************************************)
(* ArenaService.createSlugMap: a Map keeps its keys in insertion order and *)
(* set() on a key it holds replaces the value in place                     *)
(***************************************************************************)
mapKeys(m) == {m[i].slug : i \in 1..Len(m)}

mapGet(m, k) == m[CHOOSE i \in 1..Len(m) : m[i].slug = k].item

\* set() that leaves a key it already holds alone
mapSetKeepFirst(m, k, v) ==
    IF k \in mapKeys(m) THEN m ELSE Append(m, [slug |-> k, item |-> v])

mapSet(m, k, v) ==
    IF k \in mapKeys(m)
    THEN [i \in 1..Len(m) |-> IF m[i].slug = k THEN [slug |-> k, item |-> v] ELSE m[i]]
    ELSE Append(m, [slug |-> k, item |-> v])

RECURSIVE createSlugMapFrom(_, _, _)
createSlugMapFrom(contents, i, m) ==
    IF i > Len(contents) THEN m
    ELSE createSlugMapFrom(contents, i + 1,
             mapSet(m, Str(generateSlug(createSlugMapSource(contents[i]))),
                    contents[i]))

createSlugMap(channel) ==
    IF ~channel.hasContents THEN <<>>
    ELSE createSlugMapFrom(channel.contents, 1, <<>>)

(***************************************************************************)
(* Slug.saveSlugMappings: the object written to slug-mappings.json         *)
(***************************************************************************)
NoMappings == [k \in {} |-> k]

RECURSIVE mappingsFrom(_, _, _)
mappingsFrom(contents, i, mappings) ==
    IF i > Len(contents) THEN mappings
    ELSE LET item == contents[i]
             slugSource == saveSlugMappingsSource(item)
             slug == Str(generateSlug(slugSource))
             entry == [id |-> item.id, title |-> Str(slugSource),
                       class |-> item.class, original_title |-> Str(item.title)]
         IN  mappingsFrom(contents, i + 1,
                 [k \in DOMAIN mappings \cup {slug} |->
                     IF k = slug THEN entry ELSE mappings[k]])

\* renderHomePage: the slug in the link of each item's block
homeLinks(channel) ==
    [i \in 1..Len(channel.contents) |->
        Str(generateSlug(renderHomePageSource(channel.contents[i])))]

(***************************************************************************)
(* Text helpers                                                            *)
(***************************************************************************)
\* String.prototype.split("\n")
splitLines(s) ==
    LET ends == {i \in 1..Len(s) : s[i] = "\n"} \cup {Len(s) + 1}
        starts == {1} \cup {i + 1 : i \in ends \ {Len(s) + 1}}
        startOf(k) == CHOOSE b \in starts : Cardinality({c \in starts : c < b}) = k - 1
        endOf(b) == CHOOSE e \in ends : e >= b /\ \A f \in ends : f >= b => e <= f
    IN  [k \in 1..Cardinality(starts) |-> SubSeq(s, startOf(k), endOf(startOf(k)) - 1)]

\* String.prototype.trim()
trim(s) ==
    LET solid == {i \in 1..Len(s) : s[i] \notin Whitespace}
    IN  IF solid = {} THEN <<>>
        ELSE LET lo == CHOOSE i \in solid : \A j \in solid : i <= j
                 hi == CHOOSE i \in solid : \A j \in solid : j <= i
             IN  SubSeq(s, lo, hi)

\* the elements of an array
elements(s) == {s[i] : i \in 1..Len(s)}

\* Array.prototype.sort with a comparator that is negative exactly for the
\* pairs of before: the sort is stable, an element moves behind those that
\* come before it and behind its equals that preceded it
sorted(s, before) ==
    LET n == Len(s)
        rank(i) == Cardinality({j \in 1..n : \/ <<s[j], s[i]>> \in before
                                             \/ (<<s[i], s[j]>> \notin before /\ j < i)}) + 1
    IN  [p \in 1..n |-> s[CHOOSE i \in 1..n : rank(i) = p]]

(***************************************************************************)
(* processItemDescription: the pinned flag                                 *)
(***************************************************************************)
\* the keys of /^(pin|colour|tags|border|author):\s*(.+)$/i
MetadataKeys ==
    { <<"p", "i", "n">>, <<"c", "o", "l", "o", "u", "r">>, <<"t", "a", "g", "s">>,
      <<"b", "o", "r", "d", "e", "r">>, <<"a", "u", "t", "h", "o", "r">> }

NoMatch == [matched |-> FALSE, key |-> <<>>, value |-> <<>>]

\* a pattern that knows the first three keys only
metadataMatchFewKeys(trimmedLine) ==
    LET hits == {k \in {<<"p", "i", "n">>, <<"c", "o", "l", "o", "u", "r">>, <<"t", "a", "g", "s">>} :
                    /\ Len(trimmedLine) >= Len(k) + 2
                    /\ toLowerCase(SubSeq(trimmedLine, 1, Len(k))) = k
                    /\ trimmedLine[Len(k) + 1] = ":"}
    IN  IF hits = {} THEN NoMatch
        ELSE LET k == CHOOSE h \in hits : TRUE
             IN  [matched |-> TRUE, key |-> k,
                  value |-> trim(SubSeq(trimmedLine, Len(k) + 2, Len(trimmedLine)))]

\* trimmedLine.match(metadataPattern): key lowercased, value trimmed
metadataMatch(trimmedLine) ==
    LET hits == {k \in MetadataKeys :
                    /\ Len(trimmedLine) >= Len(k) + 2
                    /\ toLowerCase(SubSeq(trimmedLine, 1, Len(k))) = k
                    /\ trimmedLine[Len(k) + 1] = ":"}
    IN  IF hits = {} THEN NoMatch
        ELSE LET k == CHOOSE h \in hits : TRUE
             IN  [matched |-> TRUE, key |-> k,
                  value |-> trim(SubSeq(trimmedLine, Len(k) + 2, Len(trimmedLine)))]

\* a pinned flag set by a pin line of any value
isPinnedAnyValue(description) ==
    IF description = <<>> THEN FALSE
    ELSE LET lines == splitLines(description)
         IN  \E i \in 1..Len(lines) :
                LET m == metadataMatch(trim(lines[i]))
                IN  m.matched /\ m.key = <<"p", "i", "n">>

\* processItemDescription(description).isPinned
isPinned(description) ==
    IF description = <<>> THEN FALSE
    ELSE LET lines == splitLines(description)
         IN  \E i \in 1..Len(lines) :
                LET m == metadataMatch(trim(lines[i]))
                IN  /\ m.matched
                    /\ m.key = <<"p", "i", "n">>
                    /\ toLowerCase(m.value) = <<"t", "o", "p">>

(***************************************************************************)
(* renderHomePage: the summary blocks                                      *)
(***************************************************************************)
\* the block of one item: blockHtml with the item it was made from
homeBlock(item) ==
    [id |-> item.id,
     isPinned |-> isPinned(item.description),
     created_at |-> item.created_at,
     slug |-> Str(generateSlug(renderHomePageSource(item)))]

\* a comparator that looks at the creation time only
homeBeforeNewestOnly(a, b) == a.created_at > b.created_at

\* processedItems.sort: pinned first, then newest first
homeBefore(a, b) ==
    IF a.isPinned /\ ~b.isPinned THEN TRUE
    ELSE IF ~a.isPinned /\ b.isPinned THEN FALSE
    ELSE b.created_at - a.created_at < 0

\* blocks made of the items the slug map holds
homeBlocksOfSlugMap(channel) ==
    LET m == createSlugMap(channel)
        blocks == [i \in 1..Len(m) |-> homeBlock(m[i].item)]
    IN  sorted(blocks, {p \in elements(blocks) \X elements(blocks) :
                           homeBefore(p[1], p[2])})

\* the blocks in the order they are joined into the page
homeBlocks(channel) ==
    LET blocks == [i \in 1..Len(channel.contents) |-> homeBlock(channel.contents[i])]
    IN  sorted(blocks, {p \in elements(blocks) \X elements(blocks) :
                           homeBefore(p[1], p[2])})

(***************************************************************************)
(* generateRSSFeed                                                         *)
(***************************************************************************)
\* the item.class test of the filter
isFeedItem(item) == item.class = "Text" \/ item.class = "Link"

\* the comparator of the sort: later updated_at first
feedBefore(a, b) == b.updated_at - a.updated_at < 0

\* channelData.contents.filter(...).sort(...): filter makes a new array, so
\* the sort leaves channelData.contents as it is
feedItems(contents) ==
    LET kept == SelectSeq(contents, isFeedItem)
    IN  sorted(kept, {p \in elements(kept) \X elements(kept) : feedBefore(p[1], p[2])})

NoTable == [id \in {} |-> ""]

\* Slug.loadSlugMappings: null (no mappings) without a file or on an error
loadSlugMappings(file, readOk) ==
    IF file.exists /\ readOk THEN file.content ELSE NoMappings

\* idToSlug[mapping.id] = slug over Object.entries(slugMappings); no two
\* entries of a slug-map file have the same id
idToSlug(mappings) ==
    [id \in {mappings[k].id : k \in DOMAIN mappings} |->
        CHOOSE k \in DOMAIN mappings : mappings[k].id = id]

\* idToSlug[item.id] || item.id: an empty slug is falsy
itemSlug(table, item) ==
    IF item.id \in DOMAIN table /\ table[item.id] # ""
    THEN table[item.id]
    ELSE Str(numberToText(item.id))

\* the feed: the table it resolved slugs with and, per <item>, the item and
\* the path of its link below siteUrl
generateRSSFeed(channel, mappings) ==
    LET items == feedItems(channel.contents)
        table == idToSlug(mappings)
    IN  [made |-> TRUE,
         idToSlug |-> table,
         items |-> [i \in 1..Len(items) |->
                       [id |-> items[i].id, link |-> itemSlug(table, items[i])]]]

NoFeed == [made |-> FALSE, idToSlug |-> NoTable, items |-> <<>>]

(***************************************************************************)
(* addTargetBlankToExternalLinks                                           *)
(***************************************************************************)
\* the attributes the anchors of the html are made of
HrefExternal ==
    <<"h", "r", "e", "f", "=", "\"", "h", "t", "t", "p", "s", ":", "/", "/",
      "e", "\"">>
HrefSingleQuoted ==
    <<"h", "r", "e", "f", "=", "'", "h", "t", "t", "p", ":", "/", "/", "e",
      "'">>
HrefInternal ==
    <<"h", "r", "e", "f", "=", "\"", "/", "f", "o", "o", "\"">>
HrefWithQuery ==
    <<"h", "r", "e", "f", "=", "\"", "h", "t", "t", "p", "s", ":", "/", "/",
      "e", "?", "t", "a", "r", "g", "e", "t", "=", "1", "\"">>
TargetSelf ==
    <<"t", "a", "r", "g", "e", "t", "=", "\"", "_", "s", "e", "l", "f", "\"">>
ClassAttr ==
    <<"c", "l", "a", "s", "s", "=", "\"", "c", "\"">>

\* ' target="_blank" rel="noopener noreferrer"'
BlankTarget ==
    <<" ", "t", "a", "r", "g", "e", "t", "=", "\"", "_", "b", "l", "a", "n",
      "k", "\"", " ", "r", "e", "l", "=", "\"", "n", "o", "o", "p", "e",
      "n", "e", "r", " ", "n", "o", "r", "e", "f", "e", "r", "r", "e",
      "r", "\"">>

ExternalHrefs == {HrefExternal, HrefSingleQuoted, HrefWithQuery}
Hrefs == ExternalHrefs \cup {HrefInternal}
Attributes == Hrefs \cup {TargetSelf, ClassAttr}

\* the end of an anchor and the start of the next
AnchorBreak == <<">", "x", "<", "/", "a", ">", "<", "a">>

\* the anchors a sequence of attributes and anchor breaks stands for, each a
\* sequence of attributes
RECURSIVE anchorsOf(_)
anchorsOf(pieces) ==
    IF pieces = <<>> THEN << <<>> >>
    ELSE LET rest == anchorsOf(Tail(pieces))
         IN  IF Head(pieces) = AnchorBreak THEN << <<>> >> \o rest
             ELSE << <<Head(pieces)>> \o rest[1] >> \o Tail(rest)

\* html in which no anchor has two href or two target attributes
wellFormed(pieces) ==
    \A k \in 1..Len(anchorsOf(pieces)) :
        LET a == anchorsOf(pieces)[k]
        IN  /\ Cardinality({i \in 1..Len(a) : a[i] \in Hrefs}) <= 1
            /\ Cardinality({i \in 1..Len(a) : a[i] = TargetSelf}) <= 1

HtmlPieces ==
    { p \in UNION { [1..n -> Attributes \cup {AnchorBreak}] : n \in 1..MaxPieces } :
          wellFormed(p) }

\* <a attr attr>x</a>, with text before and after
RECURSIVE attributesText(_)
attributesText(a) ==
    IF a = <<>> THEN <<>> ELSE <<" ">> \o Head(a) \o attributesText(Tail(a))

anchorText(a, blank) ==
    <<"<", "a">> \o attributesText(a) \o blank \o <<">", "x", "<", "/", "a", ">">>

RECURSIVE concatenated(_)
concatenated(texts) ==
    IF texts = <<>> THEN <<>> ELSE Head(texts) \o concatenated(Tail(texts))

anchorsText(anchors, blank(_)) ==
    concatenated([k \in 1..Len(anchors) |->
                     anchorText(anchors[k], blank(anchors[k]))])

noBlank(a) == <<>>

\* the html text of the pieces
htmlOf(pieces) == anchorsText(anchorsOf(pieces), noBlank)

\* s has the characters of `word`, in either case, from position i on
hasAt(s, i, word) ==
    /\ i >= 1
    /\ i + Len(word) - 1 <= Len(s)
    /\ toLowerCase(SubSeq(s, i, i + Len(word) - 1)) = word

\* no ">" in s[from..to]
noClose(s, from, to) == \A u \in from..to : s[u] # ">"

Quotes == {"\"", "'"}

\* the first position from `from` on whose character is in `chars`, 0 if none
firstOf(s, from, chars) ==
    LET hits == {u \in from..Len(s) : s[u] \in chars}
    IN  IF hits = {} THEN 0
        ELSE CHOOSE u \in hits : \A v \in hits : u <= v

\* href=["']https?:\/\/[^"']+["'][^>]*> matched from position h: the position
\* of the closing >, 0 without a match
hrefMatchEnd(s, h) ==
    IF ~(hasAt(s, h, <<"h", "r", "e", "f", "=">>) /\ h + 5 <= Len(s)
            /\ s[h + 5] \in Quotes)
    THEN 0
    ELSE LET url == IF hasAt(s, h + 6, <<"h", "t", "t", "p", "s", ":", "/", "/">>)
                    THEN h + 14
                    ELSE IF hasAt(s, h + 6, <<"h", "t", "t", "p", ":", "/", "/">>)
                    THEN h + 13
                    ELSE 0
             quote == IF url = 0 THEN 0 ELSE firstOf(s, url, Quotes)
         IN  IF url = 0 \/ quote = 0 \/ quote = url THEN 0
             ELSE firstOf(s, quote + 1, {">"})

\* externalLinkRegex matched from position i: the position of the closing >
\* of the match, 0 without a match. \s+ takes the whole run of white space;
\* the lookahead (?![^>]*target=) fails when "target=" follows with no > in
\* between; the first [^>]* is greedy, so the last href= that matches is taken
matchEnd(s, i) ==
    IF ~(hasAt(s, i, <<"<", "a">>) /\ i + 2 <= Len(s) /\ s[i + 2] \in Whitespace)
    THEN 0
    ELSE LET solid == firstOf(s, i + 2, {s[u] : u \in 1..Len(s)} \ Whitespace)
             p == IF solid = 0 THEN Len(s) + 1 ELSE solid
             targeted == \E t \in p..Len(s) :
                             /\ hasAt(s, t, <<"t", "a", "r", "g", "e", "t", "=">>)
                             /\ noClose(s, p, t - 1)
             hrefs == {h \in p..Len(s) :
                          noClose(s, p, h - 1) /\ hrefMatchEnd(s, h) # 0}
         IN  IF targeted \/ hrefs = {} THEN 0
             ELSE hrefMatchEnd(s, CHOOSE h \in hrefs : \A g \in hrefs : g <= h)

\* html.replace(externalLinkRegex, ...): the closing > of every match gets
\* BlankTarget put before it. The matches are searched from left to right,
\* each from behind the one before
addTargetBlankToExternalLinks(html) ==
    LET starts == {i \in 1..Len(html) : matchEnd(html, i) # 0}
        taken == {i \in starts :
                     \A j \in starts : j < i => matchEnd(html, j) < i}
        ends == {matchEnd(html, i) : i \in taken}
        width == Len(BlankTarget)
        shift(k) == width * Cardinality({e \in ends : e <= k})
        total == Len(html) + width * Cardinality(ends)
    IN  [x \in 1..total |->
            IF \E e \in ends : x \in (e + shift(e) - width)..(e + shift(e) - 1)
            THEN LET e == CHOOSE f \in ends :
                              x \in (f + shift(f) - width)..(f + shift(f) - 1)
                 IN  BlankTarget[x - (e + shift(e) - width) + 1]
            ELSE html[CHOOSE k \in 1..Len(html) : k + shift(k) = x]]

(***************************************************************************)
(* processItemContent                                                      *)
(***************************************************************************)
\* a payload field that may be missing, a string, or a value of another type
Missing == [kind |-> "missing", text |-> <<>>]
StringValue(text) == [kind |-> "string", text |-> text]
NumberValue == [kind |-> "number", text |-> <<>>]

\* value || "" and the tests `value ? ... : ...`: a missing field and the
\* empty string are falsy
truthy(value) == value.kind = "number" \/ (value.kind = "string" /\ value.text # <<>>)

\* the elements JSON.parse gives for the array texts below
NullBlock == [isObject |-> FALSE, type |-> "", hasContent |-> FALSE,
              text |-> Missing, src |-> Missing]
Block(type, hasContent, text, src) ==
    [isObject |-> TRUE, type |-> type, hasContent |-> hasContent,
     text |-> text, src |-> src]

NotJson == [ok |-> FALSE, blocks |-> <<>>]
Json(blocks) == [ok |-> TRUE, blocks |-> blocks]

\* content strings of Text items, each with what JSON.parse makes of it
TextPlain ==
    <<"b">>
TextHeadline ==
    <<"H", "e", "a", "d", "l", "i", "n", "e", ":", " ", " ", "b", " ", "\n", "a">>
TextBracket ==
    <<"[", "b">>
TextBadJson ==
    <<"[", "\"", "t", "y", "p", "e", "\"", ":">>
TextBlocksJson ==
    <<"[", "{", "\"", "t", "y", "p", "e", "\"", ":", "\"", "t", "e", "x", "t", "\"", ",", "\"", "c", "o", "n", "t", "e", "n", "t", "\"", ":", "{", "\"", "t", "e", "x", "t", "\"", ":", "\"", "h", "e", "a", "d", "l", "i", "n", "e", ":", " ", "b", "\"", "}", "}", ",", "{", "\"", "t", "y", "p", "e", "\"", ":", "\"", "i", "m", "a", "g", "e", "\"", ",", "\"", "c", "o", "n", "t", "e", "n", "t", "\"", ":", "{", "\"", "s", "r", "c", "\"", ":", "\"", "s", "\"", "}", "}", "]">>
TextOtherShapeJson ==
    <<"[", "{", "\"", "t", "y", "p", "e", "\"", ":", "\"", "x", "\"", "}", ",", "{", "\"", "t", "y", "p", "e", "\"", ":", "\"", "t", "e", "x", "t", "\"", "}", "]">>
TextNullBlockJson ==
    <<"[", "{", "\"", "t", "y", "p", "e", "\"", ":", "\"", "x", "\"", "}", ",", "n", "u", "l", "l", "]">>
TextNumberBlockJson ==
    <<"[", "{", "\"", "t", "y", "p", "e", "\"", ":", "\"", "t", "e", "x", "t", "\"", ",", "\"", "c", "o", "n", "t", "e", "n", "t", "\"", ":", "{", "\"", "t", "e", "x", "t", "\"", ":", "5", "}", "}", "]">>

TextContents ==
    { [value |-> Missing, json |-> NotJson],
      [value |-> NumberValue, json |-> NotJson],
      [value |-> StringValue(TextPlain), json |-> NotJson],
      [value |-> StringValue(TextHeadline), json |-> NotJson],
      [value |-> StringValue(TextBracket), json |-> NotJson],
      [value |-> StringValue(TextBadJson), json |-> NotJson],
      [value |-> StringValue(TextBlocksJson),
       json |-> Json(<<Block("text", TRUE,
                           StringValue(<<"h", "e", "a", "d", "l", "i", "n", "e",
                                         ":", " ", "b">>), Missing),
                       Block("image", TRUE, Missing, StringValue(<<"s">>))>>)],
      [value |-> StringValue(TextOtherShapeJson),
       json |-> Json(<<Block("x", FALSE, Missing, Missing),
                       Block("text", FALSE, Missing, Missing)>>)],
      [value |-> StringValue(TextNullBlockJson),
       json |-> Json(<<Block("x", FALSE, Missing, Missing), NullBlock>>)],
      [value |-> StringValue(TextNumberBlockJson),
       json |-> Json(<<Block("text", TRUE, NumberValue, Missing)>>)] }

\* item.image: missing, without display, with display.url
ImagePayloads == {"missing", "noDisplay", "url"}
\* item.source, item.attachment, item.embed: missing or with url / html
PartPayloads == {"missing", "present"}

NoContent == [value |-> Missing, json |-> NotJson]

ContentItem(class, content, image, part) ==
    [class |-> class, content |-> content, image |-> image, part |-> part]

\* the items processItemContent is tried on: every class the switch names, a
\* class it does not name and a missing class, with their payload fields
\* present, missing or of the wrong type
ContentItems ==
    { ContentItem("Text", c, "missing", "missing") : c \in TextContents }
        \cup { ContentItem("Image", NoContent, i, "missing") : i \in ImagePayloads }
        \cup { ContentItem("Link", NoContent, i, p) :
                   i \in {"missing", "noDisplay"}, p \in PartPayloads }
        \cup { ContentItem(k, NoContent, "missing", p) :
                   k \in {"Attachment", "Media"}, p \in PartPayloads }
        \cup { ContentItem(k, [value |-> StringValue(TextPlain), json |-> NotJson],
                           "missing", "missing") : k \in {"Channel", ""} }

\* String.prototype.startsWith("[")
startsWithBracket(text) == Len(text) >= 1 /\ text[1] = "["

\* String.prototype.includes('"type":')
includesType(text) ==
    \E i \in 1..(Len(text) - 6) :
        SubSeq(text, i, i + 6) = <<"\"", "t", "y", "p", "e", "\"", ":">>

\* Array.prototype.join("\n")
RECURSIVE joinLines(_)
joinLines(lines) ==
    IF lines = <<>> THEN <<>>
    ELSE IF Len(lines) = 1 THEN lines[1]
    ELSE lines[1] \o <<"\n">> \o joinLines(Tail(lines))

\* line.match(/^(headline|Headline):\s*(.*)$/): the line as it is, or
\* <h3>, the trimmed rest and </h3>
promoteHeadline(line) ==
    IF /\ Len(line) >= 9
       /\ SubSeq(line, 1, 9) \in
              { <<"h", "e", "a", "d", "l", "i", "n", "e", ":">>,
                <<"H", "e", "a", "d", "l", "i", "n", "e", ":">> }
    THEN <<"<h3>">> \o trim(SubSeq(line, 10, Len(line))) \o <<"</h3>">>
    ELSE line

\* split("\n"), map, join("\n"): the headline-promotion pass
promoteHeadlines(text) ==
    LET lines == splitLines(text)
    IN  joinLines([k \in 1..Len(lines) |-> promoteHeadline(lines[k])])

\* marked.parse(text): the markdown renderer is not interpreted, its output
\* is the text between two marks
marked(text) == <<"<marked>">> \o text \o <<"</marked>">>

\* `<div class="...">body</div>`: html is a sequence of tags and characters
Div(class, body) == <<"<div class=\"" \o class \o "\">">> \o body \o <<"</div>">>

\* an exception inside a try block
Thrown == [threw |-> TRUE, html |-> <<>>]
Made(html) == [threw |-> FALSE, html |-> html]

\* jsonContent.map callback: one block rendered, or an exception
renderBlock(block, markedOk) ==
    IF ~block.isObject THEN Thrown
    ELSE IF block.type = "text" /\ block.hasContent /\ truthy(block.text)
    THEN IF block.text.kind # "string" \/ ~markedOk THEN Thrown
         ELSE Made(marked(promoteHeadlines(block.text.text)))
    ELSE IF block.type = "image" /\ block.hasContent /\ truthy(block.src)
    THEN Made(<<"<figure>">> \o block.src.text \o <<"</figure>">>)
    ELSE Made(<<>>)

\* case "Text", the inner try around JSON.parse: html of the structured
\* content, or "" after an exception
structuredContent(content, markedOk) ==
    IF ~content.json.ok THEN <<>>
    ELSE LET blocks == content.json.blocks
             rendered == [k \in 1..Len(blocks) |-> renderBlock(blocks[k], markedOk)]
         IN  IF \E k \in 1..Len(blocks) : rendered[k].threw THEN <<>>
             ELSE Div("structured-content",
                      joinLines([k \in 1..Len(blocks) |-> rendered[k].html]))

\* case "Text", standard markdown processing: the promoted text rendered by
\* marked, or left as it is when marked throws
markdownContent(text, markedOk) ==
    LET promoted == promoteHeadlines(text)
    IN  Div("text-content", IF markedOk THEN marked(promoted) ELSE promoted)

\* case "Text"; lib tells which calls of marked.parse succeed
textContent(item, lib) ==
    IF item.content.value.kind = "number" THEN Thrown
    ELSE LET processedContent == item.content.value.text
             html == IF startsWithBracket(processedContent)
                        /\ includesType(processedContent)
                     THEN structuredContent(item.content, lib.blocks)
                     ELSE <<>>
         IN  IF html = <<>>
             THEN Made(markdownContent(processedContent, lib.whole))
             ELSE Made(html)

\* the switch on item.class
classified(item, lib) ==
    CASE item.class = "Image" ->
            Made(IF item.image = "url"
                 THEN <<"<img class=\"item-image\">">>
                 ELSE Div("error", <<"Image URL not available">>))
      [] item.class = "Text" -> textContent(item, lib)
      [] item.class = "Link" ->
            Made(Div("link-content",
                     <<IF item.part = "present" THEN "<a href=url>" ELSE "<a href=#>">>
                         \o (IF item.image # "missing" THEN <<"<img>">> ELSE <<>>)))
      [] item.class = "Attachment" ->
            Made(IF item.part = "present"
                 THEN Div("attachment-content", <<"<a href=url>">>)
                 ELSE Div("error", <<"Attachment not available">>))
      [] item.class = "Media" ->
            Made(IF item.part = "present"
                 THEN Div("media-embed", <<"html">>)
                 ELSE Div("error", <<"Media embed not available">>))
      [] OTHER -> Made(Div("generic-content", item.content.value.text))

\* processItemContent with its outer catch taken away
processItemContentUncaught(item, lib) ==
    LET r == classified(item, lib)
    IN  [raised |-> r.threw, html |-> addTargetBlankToExternalLinks(r.html)]

\* processItemContent: the fragment of the switch, passed through
\* addTargetBlankToExternalLinks, or the error fragment of the catch block
processItemContent(item, lib) ==
    LET r == classified(item, lib)
    IN  IF r.threw
        THEN [raised |-> FALSE,
              html |-> Div("error", <<"Error processing content">>)]
        ELSE [raised |-> FALSE, html |-> addTargetBlankToExternalLinks(r.html)]

(***************************************************************************)
(* processItemDescription and extractColourFromDescription                 *)
(***************************************************************************)
\* the elements of s at the positions of idx, in their order
keepAt(s, idx) ==
    [k \in 1..Cardinality(idx) |->
        s[CHOOSE i \in idx : Cardinality({j \in idx : j < i}) = k - 1]]

\* String.prototype.split(",")
splitCommas(s) ==
    LET ends == {i \in 1..Len(s) : s[i] = ","} \cup {Len(s) + 1}
        starts == {1} \cup {i + 1 : i \in ends \ {Len(s) + 1}}
        startOf(k) == CHOOSE b \in starts : Cardinality({c \in starts : c < b}) = k - 1
        endOf(b) == CHOOSE e \in ends : e >= b /\ \A f \in ends : f >= b => e <= f
    IN  [k \in 1..Cardinality(starts) |-> SubSeq(s, startOf(k), endOf(startOf(k)) - 1)]

\* Array.prototype.join(separator)
RECURSIVE joined(_, _)
joined(texts, separator) ==
    IF texts = <<>> THEN <<>>
    ELSE IF Len(texts) = 1 THEN texts[1]
    ELSE texts[1] \o separator \o joined(Tail(texts), separator)

\* .replace(/\n{3,}/g, "\n\n"): of each run of newlines the first two stay
collapseNewlines(s) ==
    keepAt(s, {i \in 1..Len(s) :
                  ~(i >= 3 /\ s[i] = "\n" /\ s[i - 1] = "\n" /\ s[i - 2] = "\n")})

\* encodeURIComponent on one character
encodeURIChar(c) ==
    CASE c = " " -> <<"%", "2", "0">>
      [] c = "#" -> <<"%", "2", "3">>
      [] c = "," -> <<"%", "2", "C">>
      [] c = ":" -> <<"%", "3", "A">>
      [] c = "\n" -> <<"%", "0", "A">>
      [] OTHER -> <<c>>

encodeURIComponent(text) ==
    concatenated([i \in 1..Len(text) |-> encodeURIChar(text[i])])

\* value.split(",").map((tag) => tag.trim()).filter((tag) => tag !== "")
tagsOf(value) ==
    LET parts == splitCommas(value)
    IN  SelectSeq([k \in 1..Len(parts) |-> trim(parts[k])], LAMBDA tag : tag # <<>>)

tagLink(tag) ==
    <<"<a href=\"/#">> \o encodeURIComponent(tag)
        \o <<"\" class=\"tag-link\">#">> \o tag \o <<"</a>">>

\* the tags container, the same markup for a hidden single tag and for others
tagsField(tags) ==
    <<"<div class=\"description-field tags-field item-tags\"><span class=\"description-key\">Tags:</span> ">>
        \o joined([k \in 1..Len(tags) |-> tagLink(tags[k])], <<" ">>)
        \o <<"</div>">>

authorField(value) ==
    <<"<div class=\"description-field author-field\"><span class=\"description-key\">Author:</span> <a href=\"/">>
        \o encodeURIComponent(value) \o <<"\">">> \o value \o <<"</a></div>">>

\* what a matched line pushes to metadataFields, <<>> when it pushes nothing
metadataField(m) ==
    IF m.key = <<"t", "a", "g", "s">>
    THEN IF tagsOf(m.value) = <<>> THEN <<>> ELSE tagsField(tagsOf(m.value))
    ELSE IF m.key = <<"a", "u", "t", "h", "o", "r">>
    THEN authorField(m.value)
    ELSE <<>>

\* a description as an item carries it: absent, or a text
NoDescription == [given |-> FALSE, text |-> <<>>]
Description(text) == [given |-> TRUE, text |-> text]

\* the first pass over the lines: markdownContent
markdownContentOf(lines) ==
    concatenated([i \in 1..Len(lines) |->
        LET trimmedLine == trim(lines[i])
        IN  IF trimmedLine = <<>> THEN <<"\n">>
            ELSE IF metadataMatch(trimmedLine).matched THEN <<>>
            ELSE trimmedLine \o <<"\n", "\n">>])

\* the first pass over the lines: metadataFields
metadataFieldsOf(lines) ==
    SelectSeq([i \in 1..Len(lines) |->
                  LET trimmedLine == trim(lines[i])
                      m == metadataMatch(trimmedLine)
                  IN  IF trimmedLine # <<>> /\ m.matched THEN metadataField(m) ELSE <<>>],
              LAMBDA field : field # <<>>)

\* processItemDescription(description): marked.parse may throw, and nothing
\* catches it
processItemDescription(description, markedOk) ==
    IF ~description.given \/ description.text = <<>>
    THEN [raised |-> FALSE, html |-> <<>>, isPinned |-> FALSE]
    ELSE LET lines == splitLines(description.text)
             markdown == markdownContentOf(lines)
             hasMarkdown == trim(markdown) # <<>>
             processedMarkdown ==
                 IF hasMarkdown THEN marked(trim(collapseNewlines(markdown)))
                 ELSE <<>>
             parts == metadataFieldsOf(lines)
                          \o (IF processedMarkdown # <<>>
                              THEN <<Div("markdown-content", processedMarkdown)>>
                              ELSE <<>>)
         IN  IF hasMarkdown /\ ~markedOk
             THEN [raised |-> TRUE, html |-> <<>>, isPinned |-> FALSE]
             ELSE [raised |-> FALSE,
                   html |-> addTargetBlankToExternalLinks(joined(parts, <<"\n">>)),
                   isPinned |-> isPinned(description.text)]

\* line.trim().toLowerCase().startsWith(key + ":")
startsWithKey(line, key) ==
    LET t == toLowerCase(trim(line))
    IN  Len(t) >= Len(key) + 1 /\ SubSeq(t, 1, Len(key) + 1) = key \o <<":">>

\* line.match(/^key:\s*(.+)$/i), then match[1].trim(): the pattern is tried
\* on the line as it stands, not on the trimmed line
styleValue(line, key) ==
    IF /\ Len(line) >= Len(key) + 2
       /\ toLowerCase(SubSeq(line, 1, Len(key))) = key
       /\ line[Len(key) + 1] = ":"
    THEN trim(SubSeq(line, Len(key) + 2, Len(line)))
    ELSE <<>>

\* lines.find(...), then the value of the line found
firstStyle(lines, key) ==
    LET found == {i \in 1..Len(lines) : startsWithKey(lines[i], key)}
    IN  IF found = {} THEN <<>>
        ELSE styleValue(lines[CHOOSE i \in found : \A j \in found : i <= j], key)

extractColourFromDescription(description) ==
    IF ~description.given \/ description.text = <<>>
    THEN [backgroundColor |-> <<>>, borderColor |-> <<>>]
    ELSE LET lines == SelectSeq(splitLines(description.text),
                                LAMBDA line : trim(line) # <<>>)
         IN  [backgroundColor |-> firstStyle(lines, <<"c", "o", "l", "o", "u", "r">>),
              borderColor |-> firstStyle(lines, <<"b", "o", "r", "d", "e", "r">>)]

\* the lines descriptions are put together from
DescriptionLines ==
    { <<>>,
      <<"a">>,
      <<"p", "i", "n", ":", " ", "t", "o", "p">>,
      <<" ", "P", "i", "n", ":", "T", "O", "P">>,
      <<"p", "i", "n", ":", " ", "t", "o">>,
      <<"c", "o", "l", "o", "u", "r", ":", " ", "b">>,
      <<" ", "c", "o", "l", "o", "u", "r", ":", " ", "a">>,
      <<"c", "o", "l", "o", "u", "r", ":">>,
      <<"b", "o", "r", "d", "e", "r", ":", " ", "a">>,
      <<" ", "B", "o", "r", "d", "e", "r", ":", "b">>,
      <<"t", "a", "g", "s", ":", " ", "a", ",", " ", "b">>,
      <<"t", "a", "g", "s", ":", " ", ",">>,
      <<"a", "u", "t", "h", "o", "r", ":", " ", "a">> }

Descriptions ==
    {NoDescription}
        \cup { Description(joinLines(ls)) :
                  ls \in UNION { [1..n -> DescriptionLines] : n \in 0..MaxLines } }

(***************************************************************************)
(* The file system                                                         *)
(***************************************************************************)
\* a path below the output directory is the sequence of its components
NoFiles == [p \in {} |-> p]

\* The content of a file is recorded as what was rendered into it: the kind of
\* page, the item it shows and the slugs it links to. The size annotation that
\* measurePageSize rewrites in place after each page write is not part of the
\* record, so a measurement, done or failed (its errors are caught), leaves
\* the record as it is.
Dir == [kind |-> "dir", id |-> 0, links |-> <<>>]
Asset == [kind |-> "asset", id |-> 0, links |-> <<>>]
Other == [kind |-> "other", id |-> 0, links |-> <<>>]

HomePage(channel) ==
    [kind |-> "home", id |-> 0, links |-> homeLinks(channel),
     blocks |-> homeBlocks(channel)]
ItemPage(item) == [kind |-> "item", id |-> item.id, links |-> <<>>]
NotFoundPage == [kind |-> "404", id |-> 0, links |-> <<>>]
RssFeed == [kind |-> "rss", id |-> 0, links |-> <<>>]

\* fs.writeFileSync / fs.mkdirSync of one path
putFile(files, path, content) ==
    [p \in DOMAIN files \cup {path} |-> IF p = path THEN content ELSE files[p]]

putAll(files, more) ==
    [p \in DOMAIN files \cup DOMAIN more |-> IF p \in DOMAIN more THEN more[p] ELSE files[p]]

\* path.join(BUILD_DIR, slug): joining the empty name gives the directory itself
itemDirectory(slug) == IF slug = "" THEN <<>> ELSE <<slug>>
itemFilePath(slug) == Append(itemDirectory(slug), "index.html")
homeFilePath == <<"index.html">>
notFoundFilePath == <<"404.html">>
rssFilePath == <<"rss.xml">>

\* the entries prepareBuildDirectory never removes
KeptNames == {"node_modules", ".git"}

topLevelNames(files) == {p[1] : p \in DOMAIN files}

\* fs.rmSync / fs.unlinkSync of the top-level entries named in `names`
removeEntries(files, names) ==
    [p \in {q \in DOMAIN files : q[1] \notin names} |-> files[p]]

\* a clearing that removes nothing
clearedFilesNothing(files) == files

\* prepareBuildDirectory, the forEach over readdirSync(BUILD_DIR)
clearedFiles(files) == removeEntries(files, topLevelNames(files) \ KeptNames)

\* src/public, copied into the output root by copyStaticAssets
PublicTree ==
    (<<"css">> :> Dir) @@ (<<"css", "style.css">> :> Asset)
        @@ (<<"js">> :> Dir) @@ (<<"js", "main.js">> :> Asset)

PublicNames == {"css", "js"}

copiedFiles(files, names) ==
    putAll(files, [p \in {q \in DOMAIN PublicTree : q[1] \in names} |-> PublicTree[p]])

\* an output directory left by earlier work: a checkout, a dependency cache,
\* an old site
StaleFiles ==
    (<<".git">> :> Dir) @@ (<<".git", "HEAD">> :> Other)
        @@ (<<"node_modules">> :> Dir) @@ (<<"node_modules", "pkg">> :> Other)
        @@ (<<"index.html">> :> [kind |-> "home", id |-> 0, links |-> <<"old">>])
        @@ (<<"old">> :> Dir)
        @@ (<<"old", "index.html">> :> [kind |-> "item", id |-> 7, links |-> <<>>])

StaleMappings ==
    ("old" :> [id |-> 7, title |-> "Old", class |-> "Text", original_title |-> "Old"])

(***************************************************************************)
(* The build process: index.ts main, buildStaticSite, generateStaticPages  *)
(***************************************************************************)
\* the steps of generateStaticPages, in the order of its statements
Steps == <<"prepare", "copy", "home", "items", "404">>

\* the statement after step `at` of generateStaticPages
afterStep(at) ==
    CASE at = "prepare" -> "copy"
      [] at = "copy" -> "home"
      [] at = "home" -> "items"
      [] at = "items" -> "404"
      [] OTHER -> "rss"

\* a catch block that logs the error of a step and goes on
onErrorContinue(at) ==
    IF at \in {"prepare", "copy", "home", "items", "404"} THEN afterStep(at) ELSE "failed"

\* try { ... } catch (err) { throw err } around the steps of
\* generateStaticPages and buildStaticSite: an error ends the build
onError(at) == "failed"

BuildInit ==
    /\ pc = "idle"
    /\ responses = <<>>
    /\ channelData = NoChannel
    /\ slugMap = <<>>
    /\ entryIdx = 0
    /\ mappingFile \in { [exists |-> FALSE, content |-> NoMappings],
                         [exists |-> TRUE, content |-> StaleMappings] }
    /\ buildDir \in { [exists |-> FALSE, files |-> NoFiles],
                      [exists |-> TRUE, files |-> StaleFiles] }
    /\ written = <<>>
    /\ stepLog = <<>>
    /\ exitCode = -1
    /\ feed = NoFeed

\* the process is started: node index.js
StartBuild ==
    /\ pc \in {"idle", "exited"}
    /\ pc' = "unlink"
    /\ responses' = <<>>
    /\ channelData' = NoChannel
    /\ slugMap' = <<>>
    /\ entryIdx' = 0
    /\ written' = <<>>
    /\ stepLog' = <<>>
    /\ exitCode' = -1
    /\ feed' = NoFeed
    /\ UNCHANGED <<mappingFile, buildDir>>
    /\ UNCHANGED outsideBuild

\* buildStaticSite: delete slug-mappings.json before building
DeleteMappingFile ==
    /\ pc = "unlink"
    /\ \E ok \in BOOLEAN :
          IF ~mappingFile.exists
          THEN /\ ok
               /\ pc' = "primary"
               /\ UNCHANGED mappingFile
          ELSE IF ok
          THEN /\ pc' = "primary"
               /\ mappingFile' = [exists |-> FALSE, content |-> NoMappings]
          ELSE /\ pc' = onError("unlink")
               /\ UNCHANGED mappingFile
    /\ UNCHANGED <<responses, channelData, slugMap, entryIdx, buildDir, written,
                   stepLog, exitCode>>
    /\ UNCHANGED feed
    /\ UNCHANGED outsideBuild

\* what a transport answers: a channel, or a failure (an exception, a status
\* that is not ok, a body that is no channel)
Replies(transport) ==
    { [transport |-> transport, ok |-> TRUE, chan |-> c] : c \in ArenaChannels }
        \cup { [transport |-> transport, ok |-> FALSE, chan |-> NoChannel] }

\* a fetch that gives up when the client fails
FetchPrimaryNoFallback ==
    /\ pc = "primary"
    /\ \E reply \in Replies("client") :
          /\ responses' = Append(responses, reply)
          /\ IF reply.ok
             THEN /\ channelData' = reply.chan
                  /\ pc' = "createSlugMap"
             ELSE /\ pc' = "failed"
                  /\ UNCHANGED channelData
    /\ UNCHANGED <<slugMap, entryIdx, mappingFile, buildDir, written, stepLog,
                   exitCode>>
    /\ UNCHANGED feed
    /\ UNCHANGED outsideBuild

\* fetchChannelData, the try block: the are.na client
FetchPrimary ==
    /\ pc = "primary"
    /\ \E reply \in Replies("client") :
          /\ responses' = Append(responses, reply)
          /\ IF reply.ok
             THEN /\ channelData' = reply.chan
                  /\ pc' = "createSlugMap"
             ELSE /\ pc' = "fallback"
                  /\ UNCHANGED channelData
    /\ UNCHANGED <<slugMap, entryIdx, mappingFile, buildDir, written, stepLog,
                   exitCode>>
    /\ UNCHANGED feed
    /\ UNCHANGED outsideBuild

\* fetchChannelData, the catch block: one direct fetch, then give up
FetchFallback ==
    /\ pc = "fallback"
    /\ \E reply \in Replies("fetch") :
          /\ responses' = Append(responses, reply)
          /\ IF reply.ok
             THEN /\ channelData' = reply.chan
                  /\ pc' = "createSlugMap"
             ELSE /\ pc' = onError("fetch")
                  /\ UNCHANGED channelData
    /\ UNCHANGED <<slugMap, entryIdx, mappingFile, buildDir, written, stepLog,
                   exitCode>>
    /\ UNCHANGED feed
    /\ UNCHANGED outsideBuild

\* buildStaticSite: const slugMap = arenaService.createSlugMap(channelData)
CreateSlugMap ==
    /\ pc = "createSlugMap"
    /\ slugMap' = createSlugMap(channelData)
    /\ responses' = <<>>
    /\ pc' = "save"
    /\ UNCHANGED <<channelData, entryIdx, mappingFile, buildDir,
                   written, stepLog, exitCode>>
    /\ UNCHANGED feed
    /\ UNCHANGED outsideBuild

\* mappings that start from the entries of an earlier run
slugMappingsMerged(contents) == mappingsFrom(contents, 1, StaleMappings)

\* Slug.saveSlugMappings: const mappings = {}, filled by the forEach
slugMappings(contents) == mappingsFrom(contents, 1, NoMappings)

\* Slug.saveSlugMappings: every error is caught and logged
saveSlugMappings(file, channel, unlinkOk, writeOk) ==
    IF file.exists /\ ~unlinkOk THEN file
    ELSE IF ~channel.hasContents \/ ~writeOk
    THEN [exists |-> FALSE, content |-> NoMappings]
    ELSE [exists |-> TRUE, content |-> slugMappings(channel.contents)]

\* saveSlugMappings without its try/catch: a failed delete or write ends the
\* build
SaveSlugMappingsUncaught ==
    /\ pc = "save"
    /\ \E unlinkOk \in BOOLEAN, writeOk \in BOOLEAN :
          /\ mappingFile' = saveSlugMappings(mappingFile, channelData, unlinkOk, writeOk)
          /\ pc' = IF (mappingFile.exists /\ ~unlinkOk) \/ ~writeOk
                   THEN onError("save")
                   ELSE "prepare"
    /\ UNCHANGED <<responses, channelData, slugMap, entryIdx, buildDir, written,
                   stepLog, exitCode>>
    /\ UNCHANGED feed
    /\ UNCHANGED outsideBuild

SaveSlugMappings ==
    /\ pc = "save"
    /\ \E unlinkOk \in BOOLEAN, writeOk \in BOOLEAN :
          mappingFile' = saveSlugMappings(mappingFile, channelData, unlinkOk, writeOk)
    /\ pc' = "prepare"
    /\ UNCHANGED <<responses, channelData, slugMap, entryIdx, buildDir, written,
                   stepLog, exitCode>>
    /\ UNCHANGED feed
    /\ UNCHANGED outsideBuild

\* prepareBuildDirectory: create the output directory or clear it, then
\* create its public directory
prepareBuildDirectory(dir, mkdirOk) ==
    LET base == IF dir.exists THEN clearedFiles(dir.files) ELSE NoFiles
    IN  [exists |-> TRUE,
         files |-> IF mkdirOk THEN putFile(base, <<"public">>, Dir) ELSE base]

\* The clearing either fails before its first removal or removes every entry
\* it is meant to remove.
PrepareBuildDirectory ==
    /\ pc = "prepare"
    /\ \/ \* the directory cannot be created, or cannot be cleared
          /\ pc' = onError("prepare")
          /\ UNCHANGED <<buildDir, stepLog>>
       \/ \* the public directory cannot be created
          /\ buildDir' = prepareBuildDirectory(buildDir, FALSE)
          /\ pc' = onError("prepare")
          /\ UNCHANGED stepLog
       \/ /\ buildDir' = prepareBuildDirectory(buildDir, TRUE)
          /\ stepLog' = Append(stepLog, "prepare")
          /\ pc' = afterStep("prepare")
    /\ UNCHANGED <<responses, channelData, slugMap, entryIdx, mappingFile,
                   written, exitCode>>
    /\ UNCHANGED feed
    /\ UNCHANGED outsideBuild

\* copyStaticAssets: copyDirectory(src/public, BUILD_DIR); an error leaves
\* some of the tree copied
CopyStaticAssets ==
    /\ pc = "copy"
    /\ \/ /\ \E copied \in SUBSET PublicNames :
                /\ copied # PublicNames
                /\ buildDir' = [buildDir EXCEPT !.files = copiedFiles(@, copied)]
          /\ pc' = onError("copy")
          /\ UNCHANGED stepLog
       \/ /\ buildDir' = [buildDir EXCEPT !.files = copiedFiles(@, PublicNames)]
          /\ stepLog' = Append(stepLog, "copy")
          /\ pc' = afterStep("copy")
    /\ UNCHANGED <<responses, channelData, slugMap, entryIdx, mappingFile,
                   written, exitCode>>
    /\ UNCHANGED feed
    /\ UNCHANGED outsideBuild

\* generateHomePage: renderHomePage reads channelData.contents and the
\* templates, and throws without either; then the page is written and
\* measured
GenerateHomePage ==
    /\ pc = "home"
    /\ \E ok \in BOOLEAN :
          IF ok /\ channelData.hasContents
          THEN /\ buildDir' = [buildDir EXCEPT
                                  !.files = putFile(@, homeFilePath, HomePage(channelData))]
               /\ written' = Append(written, homeFilePath)
               /\ stepLog' = Append(stepLog, "home")
               /\ pc' = afterStep("home")
          ELSE /\ pc' = onError("home")
               /\ UNCHANGED <<buildDir, written, stepLog>>
    /\ UNCHANGED <<responses, channelData, slugMap, entryIdx, mappingFile, exitCode>>
    /\ UNCHANGED feed
    /\ UNCHANGED outsideBuild

\* generateItemPages, one turn of the loop over slugMap.entries(): the
\* directory is made, the page rendered, written and measured
GenerateItemPage ==
    /\ pc = "items"
    /\ entryIdx < Len(slugMap)
    /\ LET slug == slugMap[entryIdx + 1].slug
           item == slugMap[entryIdx + 1].item
           withDir == IF itemDirectory(slug) = <<>>
                      THEN buildDir.files
                      ELSE putFile(buildDir.files, itemDirectory(slug), Dir)
       IN  \/ \* mkdirSync fails
              /\ pc' = onError("items")
              /\ UNCHANGED <<buildDir, written, entryIdx>>
           \/ \* renderItemPage or writeFileSync fails
              /\ buildDir' = [buildDir EXCEPT !.files = withDir]
              /\ pc' = onError("items")
              /\ UNCHANGED <<written, entryIdx>>
           \/ /\ buildDir' = [buildDir EXCEPT
                                 !.files = putFile(withDir, itemFilePath(slug), ItemPage(item))]
              /\ written' = Append(written, itemFilePath(slug))
              /\ entryIdx' = entryIdx + 1
              /\ pc' = "items"
    /\ UNCHANGED <<responses, channelData, slugMap, mappingFile, stepLog, exitCode>>
    /\ UNCHANGED feed
    /\ UNCHANGED outsideBuild

\* generateItemPages returns: the loop has handled every entry
FinishItemPages ==
    /\ pc = "items"
    /\ entryIdx = Len(slugMap)
    /\ stepLog' = Append(stepLog, "items")
    /\ pc' = afterStep("items")
    /\ UNCHANGED <<responses, channelData, slugMap, entryIdx, mappingFile,
                   buildDir, written, exitCode>>
    /\ UNCHANGED feed
    /\ UNCHANGED outsideBuild

\* generate404Page: the page is rendered, written and measured
Generate404Page ==
    /\ pc = "404"
    /\ \E ok \in BOOLEAN :
          IF ok
          THEN /\ buildDir' = [buildDir EXCEPT
                                  !.files = putFile(@, notFoundFilePath, NotFoundPage)]
               /\ written' = Append(written, notFoundFilePath)
               /\ stepLog' = Append(stepLog, "404")
               /\ pc' = afterStep("404")
          ELSE /\ pc' = onError("404")
               /\ UNCHANGED <<buildDir, written, stepLog>>
    /\ UNCHANGED <<responses, channelData, slugMap, entryIdx, mappingFile, exitCode>>
    /\ UNCHANGED feed
    /\ UNCHANGED outsideBuild

\* buildStaticSite: generateRSSFeed, then rss.xml is written. The feed loads
\* "slug-mappings.json", a name resolved against the working directory, and
\* rss.xml goes below the source directory: started in the source directory
\* the process reads the file saveSlugMappings wrote and writes into the
\* output directory; started elsewhere it reads whatever file of that name
\* the working directory holds and writes outside the output directory.
GenerateRSS ==
    /\ pc = "rss"
    /\ \E inSourceDir \in BOOLEAN, readOk \in BOOLEAN, writeOk \in BOOLEAN,
          elsewhere \in { [exists |-> FALSE, content |-> NoMappings],
                          [exists |-> TRUE, content |-> StaleMappings] } :
          LET file == IF inSourceDir THEN mappingFile ELSE elsewhere
          IN  IF ~channelData.hasContents
              THEN /\ pc' = onError("rss")
                   /\ UNCHANGED <<buildDir, feed>>
              ELSE /\ feed' = generateRSSFeed(channelData,
                                              loadSlugMappings(file, readOk))
                   /\ IF writeOk
                      THEN /\ pc' = "done"
                           /\ buildDir' =
                                 IF inSourceDir
                                 THEN [buildDir EXCEPT
                                          !.files = putFile(@, rssFilePath, RssFeed)]
                                 ELSE buildDir
                      ELSE /\ pc' = onError("rss")
                           /\ UNCHANGED buildDir
    /\ UNCHANGED <<responses, channelData, slugMap, entryIdx, mappingFile,
                   written, stepLog, exitCode>>
    /\ UNCHANGED outsideBuild

\* index.ts main: process.exit(0) after buildStaticSite returned,
\* process.exit(1) after it threw
Exit ==
    /\ pc \in {"done", "failed"}
    /\ exitCode' = IF pc = "done" THEN 0 ELSE 1
    /\ pc' = "exited"
    /\ UNCHANGED <<responses, channelData, slugMap, entryIdx, mappingFile,
                   buildDir, written, stepLog>>
    /\ UNCHANGED feed
    /\ UNCHANGED outsideBuild

Next ==
    \/ StartBuild
    \/ DeleteMappingFile
    \/ FetchPrimary
    \/ FetchFallback
    \/ CreateSlugMap
    \/ SaveSlugMappings
    \/ PrepareBuildDirectory
    \/ CopyStaticAssets
    \/ GenerateHomePage
    \/ GenerateItemPage
    \/ FinishItemPages
    \/ Generate404Page
    \/ GenerateRSS
    \/ Exit

(***************************************************************************)
(* The slug generator on its own                                           *)
(***************************************************************************)
SlugInit ==
    /\ sIn \in SlugInputs
    /\ sOut = <<>>
    /\ sOut2 = <<>>
    /\ sPc = "in"

\* generateSlug(x)
SlugOnce ==
    /\ sPc = "in"
    /\ sOut' = generateSlug(sIn)
    /\ sPc' = "once"
    /\ UNCHANGED <<sIn, sOut2>>
    /\ UNCHANGED outsideSlug

\* generateSlug(generateSlug(x))
SlugTwice ==
    /\ sPc = "once"
    /\ sOut2' = generateSlug(sOut)
    /\ sPc' = "twice"
    /\ UNCHANGED <<sIn, sOut>>
    /\ UNCHANGED outsideSlug

SlugNext ==
    \/ SlugOnce
    \/ SlugTwice

SlugIdle ==
    /\ sIn = <<>>
    /\ sOut = <<>>
    /\ sOut2 = <<>>
    /\ sPc = "in"

FunIdle ==
    /\ arg = <<>>
    /\ ret = <<>>
    /\ fPc = "idle"

(***************************************************************************)
(* generateItemPages as far as the classification of the items goes        *)
(***************************************************************************)
\* which calls of marked.parse succeed: those on the text of a block, the one
\* on the whole content
MarkedOutcomes == [blocks : BOOLEAN, whole : BOOLEAN]

ContentInit ==
    /\ arg \in UNION { [1..n -> ContentItems] : n \in 1..MaxEntries }
    /\ ret = <<>>
    /\ fPc = "items"

\* one turn of the loop of generateItemPages: renderItemPage awaits
\* processItemContent, then the page is rendered from the templates and
\* written, which fails when a template or the file system does
RenderItemPage ==
    /\ fPc = "items"
    /\ Len(ret) < Len(arg)
    /\ \E lib \in MarkedOutcomes, pageOk \in BOOLEAN :
          LET r == processItemContent(arg[Len(ret) + 1], lib)
          IN  IF r.raised
              THEN /\ fPc' = "raised"
                   /\ UNCHANGED ret
              ELSE IF ~pageOk
              THEN /\ fPc' = "aborted"
                   /\ UNCHANGED ret
              ELSE /\ ret' = Append(ret, r)
                   /\ fPc' = "items"
    /\ UNCHANGED arg
    /\ UNCHANGED outsideFun

\* the loop has handled every entry
ItemPagesRendered ==
    /\ fPc = "items"
    /\ Len(ret) = Len(arg)
    /\ fPc' = "done"
    /\ UNCHANGED <<arg, ret>>
    /\ UNCHANGED outsideFun

ContentNext ==
    \/ RenderItemPage
    \/ ItemPagesRendered

(***************************************************************************)
(* addTargetBlankToExternalLinks on its own                                *)
(***************************************************************************)
LinkInit ==
    /\ arg \in HtmlPieces
    /\ ret = <<>>
    /\ fPc = "html"

\* addTargetBlankToExternalLinks(html)
AddTargetBlank ==
    /\ fPc = "html"
    /\ ret' = addTargetBlankToExternalLinks(htmlOf(arg))
    /\ fPc' = "returned"
    /\ UNCHANGED arg
    /\ UNCHANGED outsideFun

LinkNext ==
    \/ AddTargetBlank

(***************************************************************************)
(* renderTemplate                                                          *)
(***************************************************************************)
\* a value of the data mapping: string | number
TemplateString(text) == [kind |-> "string", text |-> text, n |-> 0]
TemplateNumber(n) == [kind |-> "number", text |-> <<>>, n |-> n]

\* String(value || ""): the empty string and 0 are falsy
valueText(value) ==
    IF value.kind = "number"
    THEN IF value.n = 0 THEN <<>> ELSE numberToText(value.n)
    ELSE value.text

\* the first position from i on that holds no whitespace, Len(s) + 1 if none
skipWhitespace(s, i) ==
    LET solid == {j \in i..Len(s) : s[j] \notin Whitespace} \cup {Len(s) + 1}
    IN  CHOOSE j \in solid : \A k \in solid : j <= k

\* new RegExp(`{{\\s*${key}\\s*}}`) tried at position i: the position of the
\* last character matched, 0 when there is no match
placeholderEnd(s, i, key) ==
    IF ~(i + 1 <= Len(s) /\ s[i] = "{" /\ s[i + 1] = "{") THEN 0
    ELSE LET j == skipWhitespace(s, i + 2)
         IN  IF ~(j + Len(key) - 1 <= Len(s) /\ SubSeq(s, j, j + Len(key) - 1) = key)
             THEN 0
             ELSE LET k == skipWhitespace(s, j + Len(key))
                  IN  IF k + 1 <= Len(s) /\ s[k] = "}" /\ s[k + 1] = "}"
                      THEN k + 1
                      ELSE 0

\* the replacement string of String.prototype.replace: $$ stands for $ and
\* $& for the text matched
RECURSIVE expanded(_, _)
expanded(replacement, matched) ==
    IF replacement = <<>> THEN <<>>
    ELSE IF Len(replacement) >= 2 /\ replacement[1] = "$" /\ replacement[2] = "$"
    THEN <<"$">> \o expanded(SubSeq(replacement, 3, Len(replacement)), matched)
    ELSE IF Len(replacement) >= 2 /\ replacement[1] = "$" /\ replacement[2] = "&"
    THEN matched \o expanded(SubSeq(replacement, 3, Len(replacement)), matched)
    ELSE <<replacement[1]>> \o expanded(Tail(replacement), matched)

\* template.replace(placeholder, replacement) with the g flag, from position
\* i on: the matches are found from left to right in the text as it was
RECURSIVE replacedFrom(_, _, _, _)
replacedFrom(s, i, key, replacement) ==
    IF i > Len(s) THEN <<>>
    ELSE LET e == placeholderEnd(s, i, key)
         IN  IF e = 0
             THEN <<s[i]>> \o replacedFrom(s, i + 1, key, replacement)
             ELSE expanded(replacement, SubSeq(s, i, e))
                      \o replacedFrom(s, e + 1, key, replacement)

\* one turn of the loop over Object.entries(data)
replacePlaceholder(template, entry) ==
    replacedFrom(template, 1, entry.key, valueText(entry.value))

\* the keys of the templates and mappings tried
KeyA == <<"a">>
KeyB == <<"b">>
KeyC == <<"c">>

\* what the templates are put together from: text, a token of each key with
\* and without whitespace, a token that is not closed
TemplatePieces ==
    { <<"x">>,
      <<"{", "{", "a", "}", "}">>,
      <<"{", "{", " ", "b", " ", "}", "}">>,
      <<"{", "{", "c", "}", "}">>,
      <<"{", "{", " ", "a", "}">> }

Templates ==
    { concatenated(ps) : ps \in UNION { [1..n -> TemplatePieces] : n \in 1..MaxTokens } }

\* the values tried for the first and the second key
ValuesA ==
    { TemplateString(<<"v">>), TemplateString(<<>>),
      TemplateString(<<"{", "{", "b", "}", "}">>),
      TemplateString(<<"$", "&">>),
      TemplateNumber(0), TemplateNumber(7) }
ValuesB ==
    { TemplateString(<<"w">>), TemplateString(<<"{", "{", " ", "a", " ", "}", "}">>) }

\* the mappings tried, as Object.entries lists them: no mapping has the key c
TemplateData ==
    { <<[key |-> KeyA, value |-> va]>> : va \in ValuesA }
        \cup { <<[key |-> KeyA, value |-> va], [key |-> KeyB, value |-> vb]>> :
                  va \in ValuesA, vb \in ValuesB }
        \cup { <<[key |-> KeyB, value |-> vb], [key |-> KeyA, value |-> va]>> :
                  va \in ValuesA, vb \in ValuesB }

TemplateInit ==
    /\ arg \in [template : Templates, data : TemplateData]
    /\ ret = [template |-> <<>>, entries |-> 0]
    /\ fPc = "template"

\* let template = fs.readFileSync(templatePath, "utf8"); an error is thrown
\* again as "Template rendering failed"
ReadTemplate ==
    /\ fPc = "template"
    /\ \E readOk \in BOOLEAN :
          IF readOk
          THEN /\ ret' = [template |-> arg.template, entries |-> 0]
               /\ fPc' = "entries"
          ELSE /\ fPc' = "failed"
               /\ UNCHANGED ret
    /\ UNCHANGED arg
    /\ UNCHANGED outsideFun

\* for (const [key, value] of Object.entries(data)) template = template.replace(...)
ReplacePlaceholder ==
    /\ fPc = "entries"
    /\ ret.entries < Len(arg.data)
    /\ ret' = [template |-> replacePlaceholder(ret.template, arg.data[ret.entries + 1]),
               entries |-> ret.entries + 1]
    /\ UNCHANGED <<arg, fPc>>
    /\ UNCHANGED outsideFun

\* return template
ReturnTemplate ==
    /\ fPc = "entries"
    /\ ret.entries = Len(arg.data)
    /\ fPc' = "rendered"
    /\ UNCHANGED <<arg, ret>>
    /\ UNCHANGED outsideFun

TemplateNext ==
    \/ ReadTemplate
    \/ ReplacePlaceholder
    \/ ReturnTemplate

(***************************************************************************)
(* The description of an item, as the callback of renderHomePage reads it  *)
(***************************************************************************)
DescriptionInit ==
    /\ arg \in Descriptions
    /\ ret = <<>>
    /\ fPc = "description"

\* processItemDescription(item.description): an error of marked.parse is not
\* caught and the page is not rendered
ProcessItemDescription ==
    /\ fPc = "description"
    /\ \E markedOk \in BOOLEAN :
          LET r == processItemDescription(arg, markedOk)
          IN  IF r.raised
              THEN /\ fPc' = "rejected"
                   /\ UNCHANGED ret
              ELSE /\ fPc' = "parsed"
                   /\ ret' = [parsed |-> r,
                              style |-> [backgroundColor |-> <<>>, borderColor |-> <<>>]]
    /\ UNCHANGED arg
    /\ UNCHANGED outsideFun

\* extractColourFromDescription(item.description)
ExtractColourFromDescription ==
    /\ fPc = "parsed"
    /\ ret' = [ret EXCEPT !.style = extractColourFromDescription(arg)]
    /\ fPc' = "styled"
    /\ UNCHANGED arg
    /\ UNCHANGED outsideFun

DescriptionNext ==
    \/ ProcessItemDescription
    \/ ExtractColourFromDescription

(***************************************************************************)
(* The poller (.github/scripts/poll-arena.js, run by arena-check.yml)      *)
(***************************************************************************)
\* a value a variable of the script holds
Unset == [kind |-> "unset", n |-> 0]
Null == [kind |-> "null", n |-> 0]
NaN == [kind |-> "NaN", n |-> 0]
Number(n) == [kind |-> "number", n |-> n]

\* arena_count.txt
NoCountFile == [exists |-> FALSE, text |-> <<>>]
CountFile(text) == [exists |-> TRUE, text |-> text]

\* the versions of the script: the one that logs and catches ("cached"), the
\* latest one ("latest")
PollVersions == {"cached", "latest"}

\* the channel as the API returns it: data.contents.length and the state of
\* everything else in it
ChannelStates == [count : 0..MaxCount, revision : 0..1]

\* parseInt(text, 10) of a text without sign: the value of its leading
\* digits, NaN when it has none
digitValue(c) == CHOOSE d \in 0..9 : DigitChar(d) = c
RECURSIVE digitsValue(_)
digitsValue(digits) ==
    IF digits = <<>> THEN 0
    ELSE 10 * digitsValue(SubSeq(digits, 1, Len(digits) - 1))
         + digitValue(digits[Len(digits)])
parseInt(text) ==
    LET t == trim(text)
        stops == {i \in 1..Len(t) : t[i] \notin Digits} \cup {Len(t) + 1}
        stop == CHOOSE i \in stops : \A j \in stops : i <= j
    IN  IF stop = 1 THEN NaN ELSE Number(digitsValue(SubSeq(t, 1, stop - 1)))

\* currentCount !== previousCount
strictNotEqual(a, b) ==
    \/ a.kind # b.kind
    \/ a.kind = "NaN"
    \/ a.kind = "number" /\ a.n # b.n

\* the first version of the script deploys on every run
changedAlways(currentCount, previousCount) == TRUE

\* previousCount === null || currentCount !== previousCount
changed(currentCount, previousCount) ==
    previousCount = Null \/ strictNotEqual(currentCount, previousCount)

\* whether an error thrown in a helper is caught there (the "cached" version
\* wraps savePreviousCount, triggerDeploy and checkDeployStatus in try/catch)
catches(version) == version = "cached"

PollInit ==
    /\ poller \in [pc : {"idle"}, version : PollVersions, channel : ChannelStates,
                   cache : {NoCountFile}, file : {NoCountFile}, data : {[count |-> 0, revision |-> 0]},
                   currentCount : {Unset}, previousCount : {Unset},
                   posted : {FALSE}, deploy : {"none"}, deployed : {-1},
                   lastReply : {"none"}, lastCount : {-1}]

\* items are added to, removed from or edited in the channel
ChannelChanges ==
    /\ \E c \in ChannelStates :
          /\ c # poller.channel
          /\ poller' = [poller EXCEPT !.channel = c]
    /\ UNCHANGED outsidePoll

\* arena-check.yml: the scheduled job restores the newest cache of
\* arena_count.txt, if one is left, and runs the script
StartPoll ==
    /\ poller.pc \in {"idle", "ended", "crashed"}
    /\ \E hit \in BOOLEAN :
          poller' = [poller EXCEPT !.pc = "getBlockCount",
                                   !.file = IF hit THEN poller.cache ELSE NoCountFile,
                                   !.currentCount = Unset,
                                   !.previousCount = Unset,
                                   !.posted = FALSE,
                                   !.deploy = "none"]
    /\ UNCHANGED outsidePoll

\* const currentCount = await getBlockCount(): the request fails, or the reply
\* has no contents, and the run ends with an error
GetBlockCount ==
    /\ poller.pc = "getBlockCount"
    /\ \E ok \in BOOLEAN :
          IF ok
          THEN poller' = [poller EXCEPT !.pc = "getPreviousCount",
                                        !.data = poller.channel,
                                        !.currentCount = Number(poller.channel.count)]
          ELSE poller' = [poller EXCEPT !.pc = "crashed"]
    /\ UNCHANGED outsidePoll

\* const previousCount = await getPreviousCount()
getPreviousCount(file, readOk) ==
    IF file.exists /\ readOk THEN parseInt(file.text) ELSE Null

GetPreviousCount ==
    /\ poller.pc = "getPreviousCount"
    /\ \E readOk \in BOOLEAN :
          poller' = [poller EXCEPT !.pc = "compare",
                                   !.previousCount = getPreviousCount(poller.file, readOk)]
    /\ UNCHANGED outsidePoll

\* if (previousCount === null || currentCount !== previousCount) ... else skip
Compare ==
    /\ poller.pc = "compare"
    /\ poller' = [poller EXCEPT !.pc =
                     IF changed(poller.currentCount, poller.previousCount)
                     THEN "savePreviousCount" ELSE "completed"]
    /\ UNCHANGED outsidePoll

\* await savePreviousCount(currentCount): fs.writeFile(COUNT_FILE, count.toString())
SavePreviousCount ==
    /\ poller.pc = "savePreviousCount"
    /\ \E writeOk \in BOOLEAN :
          IF writeOk
          THEN poller' = [poller EXCEPT !.pc = "triggerDeploy",
                                        !.file = CountFile(numberToText(poller.currentCount.n))]
          ELSE poller' = [poller EXCEPT !.pc =
                             IF catches(poller.version) THEN "triggerDeploy" ELSE "crashed"]
    /\ UNCHANGED outsidePoll

\* what the POST to the deploy hook comes to: a 201 with a job id, a 201
\* without one, another status, no connection
DeployReplies == {"job", "nojob", "refused", "unreachable"}

\* await triggerDeploy(): the POST to VERCEL_DEPLOY_HOOK_URL
TriggerDeploy ==
    /\ poller.pc = "triggerDeploy"
    /\ \E reply \in DeployReplies :
          poller' = [poller EXCEPT !.posted = TRUE,
                                   !.deploy = reply,
                                   !.deployed = poller.data.revision,
                                   !.lastReply = reply,
                                   !.lastCount = poller.currentCount.n,
                                   !.pc = CASE reply = "job" -> "checkDeployStatus"
                                            [] reply = "unreachable" /\ ~catches(poller.version) -> "crashed"
                                            [] OTHER -> "completed"]
    /\ UNCHANGED outsidePoll

\* await checkDeployStatus(jsonData.job.id)
CheckDeployStatus ==
    /\ poller.pc = "checkDeployStatus"
    /\ \E ok \in BOOLEAN :
          poller' = [poller EXCEPT !.pc =
                        IF ok \/ catches(poller.version) THEN "completed" ELSE "crashed"]
    /\ UNCHANGED outsidePoll

\* "Arena check completed": the script ends and the job saves arena_count.txt
\* to the cache under a new key
PollCompleted ==
    /\ poller.pc = "completed"
    /\ poller' = [poller EXCEPT !.pc = "ended",
                                !.cache = IF poller.file.exists THEN poller.file
                                          ELSE poller.cache]
    /\ UNCHANGED outsidePoll

PollNext ==
    \/ ChannelChanges
    \/ StartPoll
    \/ GetBlockCount
    \/ GetPreviousCount
    \/ Compare
    \/ SavePreviousCount
    \/ TriggerDeploy
    \/ CheckDeployStatus
    \/ PollCompleted

\* no poll has run
PollIdle ==
    poller = [pc |-> "off", version |-> "latest", channel |-> [count |-> 0, revision |-> 0],
              cache |-> NoCountFile, file |-> NoCountFile,
              data |-> [count |-> 0, revision |-> 0],
              currentCount |-> Unset, previousCount |-> Unset,
              posted |-> FALSE, deploy |-> "none", deployed |-> -1,
              lastReply |-> "none", lastCount |-> -1]

(***************************************************************************)
(* Page generation and the size measurements it starts (build.ts,          *)
(* utils/size)                                                             *)
(*                                                                         *)
(* A measurement that waits for HEAD requests goes on in a callback of the *)
(* event loop. Callbacks run only while the build waits for the network    *)
(* (fetchChannelData) or after buildStaticSite has returned to a caller    *)
(* that keeps the process alive: every other await of the build is on a    *)
(* promise that is already settled, and main calls process.exit as soon as *)
(* buildStaticSite settles.                                                *)
(***************************************************************************)
\* how index.ts is run: as the main module, or imported by another module
\* that calls buildStaticSite (the require.main === module test)
RunModes == {"direct", "imported"}

\* a page a previous build left in ./build: none, one without and one with
\* images of other hosts
OldPages == {"none", "plain", "external"}

\* what a build is asked to generate: whether the home page, each item page
\* and the 404 page show images of other hosts; and what the previous build
\* left at index.html and in the directory of the first item
SizePlans ==
    [home : BOOLEAN, notFound : BOOLEAN,
     items : UNION { [1..n -> BOOLEAN] : n \in 0..MaxPages },
     old : [home : OldPages, item : OldPages]]

\* the page files: index.html, <slug>/index.html, 404.html
HomePath == <<"home", 0>>
ItemPath(n) == <<"item", n>>
PagePaths == {HomePath, <<"404", 0>>} \cup {ItemPath(n) : n \in 1..MaxPages}

\* a page file in the build directory
PageFile(kind, n, external) ==
    [kind |-> kind, n |-> n, external |-> external, sized |-> FALSE]

\* whether the page now at path shows images of other hosts
showsExternal(state, path) ==
    IF state.disk[path] = "old"
    THEN (IF path = HomePath THEN state.plan.old.home ELSE state.plan.old.item) = "external"
    ELSE IF path = HomePath THEN state.plan.home
    ELSE IF path[1] = "item" /\ path[2] <= Len(state.plan.items) THEN state.plan.items[path[2]]
    ELSE state.plan.notFound

\* measurePageSize(filePath), called without await: up to its first await
\* the function runs within the call. It reads and parses the file and adds
\* up the local resources; an error is caught and logged. Without external
\* images it writes the annotation back before it returns; with them it
\* waits for the HEAD requests and the caller goes on.
measurePageSize(state, page, readOk, writeOk) ==
    LET at == Len(state.pages) + 1
        pages == Append(state.pages, page)
    IN  IF ~readOk
        THEN [state EXCEPT !.pages = pages]
        ELSE IF page.external
        THEN [state EXCEPT !.pages = pages, !.pending = state.pending \cup {at}]
        ELSE [state EXCEPT !.pages = [pages EXCEPT ![at].sized = writeOk]]

\* measurePageSize waiting for nothing: the annotation is written within the
\* call whatever the page shows
measurePageSizeSync(state, page, readOk, writeOk) ==
    LET at == Len(state.pages) + 1
        pages == Append(state.pages, page)
    IN  [state EXCEPT !.pages = [pages EXCEPT ![at].sized = readOk /\ writeOk]]

\* processDirectory, one measurement: index.html first, then the index.html
\* of the subdirectories. A file that is missing is skipped; a page without
\* external images is read and written back at once; for one with them the
\* content read is kept until the HEAD requests are answered.
scanStep(state) ==
    LET path == IF state.scan.pc = "index" THEN HomePath ELSE ItemPath(1)
        after == IF state.scan.pc = "index" THEN "subdirs" ELSE "done"
        wait == IF state.scan.pc = "index" THEN "waitIndex" ELSE "waitItem"
    IN  IF state.scan.pc \notin {"index", "subdirs"} THEN state
        ELSE IF state.disk[path] # "none" /\ showsExternal(state, path)
        THEN [state EXCEPT !.scan = [pc |-> wait, content |-> state.disk[path]]]
        ELSE [state EXCEPT !.scan = [pc |-> after, content |-> "none"]]

\* processDirectory as far as it gets without waiting
scanRun(state) == scanStep(scanStep(state))

\* fs.writeFileSync(filePath, updated) of a measurement of the scan: updated
\* is made of the content read before the wait, with the first size
\* paragraph replaced by the new figure followed by a further
\* "Includes N external images" comment; remarked holds the files that were
\* rewritten this way. Writing index.html of the root succeeds whatever is
\* there now; writing into the directory of an item fails, and is caught,
\* when the directory is gone.
scanWriteBack(state, writeOk) ==
    LET path == IF state.scan.pc = "waitIndex" THEN HomePath ELSE ItemPath(1)
        after == IF state.scan.pc = "waitIndex" THEN "subdirs" ELSE "done"
        succeeds == writeOk /\ (path = HomePath \/ state.disk[path] # "none")
    IN  [state EXCEPT !.scan = [pc |-> after, content |-> "none"],
                      !.disk[path] = IF succeeds THEN state.scan.content ELSE @,
                      !.remarked = IF succeeds THEN @ \cup {path} ELSE @]

SizeStart(mode, plan) ==
    [pc |-> "load", mode |-> mode, plan |-> plan, pages |-> <<>>, pending |-> {},
     reported |-> FALSE, exitCode |-> -1,
     disk |-> [p \in PagePaths |->
                  IF p = HomePath /\ plan.old.home # "none" THEN "old"
                  ELSE IF p = ItemPath(1) /\ plan.old.item # "none" THEN "old"
                  ELSE "none"],
     scan |-> [pc |-> "index", content |-> "none"],
     remarked |-> {}]

SizeInit ==
    sizing \in {SizeStart(mode, plan) : mode \in RunModes, plan \in SizePlans}

\* the modules are loaded: utils/size starts processDirectory("./build"),
\* then buildStaticSite runs up to await fetchChannelData()
LoadModules ==
    /\ sizing.pc = "load"
    /\ sizing' = [scanRun(sizing) EXCEPT !.pc = "fetch"]
    /\ UNCHANGED outsideSize

\* the HEAD requests of a measurement of the scan are answered or time out;
\* the measurement writes back and processDirectory goes on
HeadRepliesToScan ==
    /\ sizing.pc \in {"fetch", "returned"}
    /\ sizing.scan.pc \in {"waitIndex", "waitItem"}
    /\ \E writeOk \in BOOLEAN :
          sizing' = scanRun(scanWriteBack(sizing, writeOk))
    /\ UNCHANGED outsideSize

\* fetchChannelData settles. On success prepareBuildDirectory empties the
\* output directory; on failure main exits with 1 or the caller gets the error
FetchSettles ==
    /\ sizing.pc = "fetch"
    /\ \E ok \in BOOLEAN :
          IF ok
          THEN sizing' = [sizing EXCEPT !.pc = "home",
                                        !.disk = [p \in PagePaths |-> "none"]]
          ELSE sizing' = [sizing EXCEPT
                             !.pc = IF sizing.mode = "direct" THEN "exited" ELSE "returned",
                             !.exitCode = IF sizing.mode = "direct" THEN 1 ELSE @]
    /\ UNCHANGED outsideSize

\* generateHomePage: write build/index.html, start its measurement
GenerateHomePageSized ==
    /\ sizing.pc = "home"
    /\ \E readOk, writeOk \in BOOLEAN :
          sizing' = [measurePageSize(sizing, PageFile("home", 0, sizing.plan.home),
                                     readOk, writeOk)
                     EXCEPT !.pc = "items", !.disk[HomePath] = "new"]
    /\ UNCHANGED outsideSize

\* one turn of the loop of generateItemPages: write <slug>/index.html, start
\* its measurement
GenerateItemPageSized ==
    /\ sizing.pc = "items"
    /\ LET done == Cardinality({i \in 1..Len(sizing.pages) : sizing.pages[i].kind = "item"})
       IN  /\ done < Len(sizing.plan.items)
           /\ \E readOk, writeOk \in BOOLEAN :
                 sizing' = [measurePageSize(sizing,
                                PageFile("item", done + 1, sizing.plan.items[done + 1]),
                                readOk, writeOk)
                            EXCEPT !.disk[ItemPath(done + 1)] = "new"]
    /\ UNCHANGED outsideSize

\* generate404Page, then "Page generation completed"
Generate404PageSized ==
    /\ sizing.pc = "items"
    /\ Cardinality({i \in 1..Len(sizing.pages) : sizing.pages[i].kind = "item"})
          = Len(sizing.plan.items)
    /\ \E readOk, writeOk \in BOOLEAN :
          sizing' = [measurePageSize(sizing, PageFile("404", 0, sizing.plan.notFound),
                                     readOk, writeOk)
                     EXCEPT !.pc = "rss", !.reported = TRUE, !.disk[<<"404", 0>>] = "new"]
    /\ UNCHANGED outsideSize

\* the HEAD requests of a measurement the build started are answered or time
\* out: the measurement writes the page it read back with its annotation
MeasurementResumes ==
    /\ sizing.pc = "returned"
    /\ \E at \in sizing.pending, writeOk \in BOOLEAN :
          sizing' = [sizing EXCEPT
                        !.pending = sizing.pending \ {at},
                        !.pages[at].sized = writeOk,
                        !.disk[<<sizing.pages[at].kind, sizing.pages[at].n>>] =
                            IF writeOk THEN "new" ELSE @]
    /\ UNCHANGED outsideSize

\* the feed is written and buildStaticSite returns. Run directly, main calls
\* process.exit(0), or process.exit(1) when the feed could not be written,
\* and what is still waiting ends with the process; imported, the caller
\* goes on
ExitAfterPages ==
    /\ sizing.pc = "rss"
    /\ \E rssOk \in BOOLEAN :
          sizing' = [sizing EXCEPT
                        !.pc = IF sizing.mode = "direct" THEN "exited" ELSE "returned",
                        !.exitCode = IF sizing.mode # "direct" THEN @
                                     ELSE IF rssOk THEN 0 ELSE 1]
    /\ UNCHANGED outsideSize

SizeNext ==
    \/ LoadModules
    \/ HeadRepliesToScan
    \/ FetchSettles
    \/ GenerateHomePageSized
    \/ GenerateItemPageSized
    \/ Generate404PageSized
    \/ MeasurementResumes
    \/ ExitAfterPages

\* no page generation has run
SizeIdle ==
    sizing = [pc |-> "off", mode |-> "direct",
              plan |-> [home |-> FALSE, notFound |-> FALSE, items |-> <<>>,
                        old |-> [home |-> "none", item |-> "none"]],
              pages |-> <<>>, pending |-> {}, reported |-> FALSE, exitCode |-> -1,
              disk |-> [p \in PagePaths |-> "none"],
              scan |-> [pc |-> "done", content |-> "none"],
              remarked |-> {}]

\* the build process, started any number of times
Init == BuildInit /\ SlugIdle /\ FunIdle /\ PollIdle /\ SizeIdle
Spec == Init /\ [][Next]_vars

\* no build process is running
BuildIdle ==
    /\ pc = "idle"
    /\ responses = <<>>
    /\ channelData = NoChannel
    /\ slugMap = <<>>
    /\ entryIdx = 0
    /\ mappingFile = [exists |-> FALSE, content |-> NoMappings]
    /\ buildDir = [exists |-> FALSE, files |-> NoFiles]
    /\ written = <<>>
    /\ stepLog = <<>>
    /\ exitCode = -1
    /\ feed = NoFeed

\* the slug generator applied once and twice to each text of SlugInputs
SlugSpecInit ==
    /\ SlugInit
    /\ PollIdle
    /\ SizeIdle
    /\ BuildIdle
    /\ FunIdle
SlugSpec == SlugSpecInit /\ [][SlugNext]_vars

\* item pages rendered for each sequence of up to MaxEntries items
ContentSpecInit ==
    /\ ContentInit
    /\ PollIdle
    /\ SizeIdle
    /\ BuildIdle
    /\ SlugIdle
ContentSpec == ContentSpecInit /\ [][ContentNext]_vars

\* addTargetBlankToExternalLinks applied to each html of HtmlPieces
LinkSpecInit ==
    /\ LinkInit
    /\ PollIdle
    /\ SizeIdle
    /\ BuildIdle
    /\ SlugIdle
LinkSpec == LinkSpecInit /\ [][LinkNext]_vars

\* the description functions applied to each description of Descriptions
DescriptionSpecInit ==
    /\ DescriptionInit
    /\ PollIdle
    /\ SizeIdle
    /\ BuildIdle
    /\ SlugIdle
DescriptionSpec == DescriptionSpecInit /\ [][DescriptionNext]_vars

\* renderTemplate applied to each template of Templates and mapping of
\* TemplateData
TemplateSpecInit ==
    /\ TemplateInit
    /\ PollIdle
    /\ SizeIdle
    /\ BuildIdle
    /\ SlugIdle
TemplateSpec == TemplateSpecInit /\ [][TemplateNext]_vars

\* the scheduled poll, run any number of times against a changing channel
PollSpecInit ==
    /\ PollInit
    /\ SizeIdle
    /\ BuildIdle
    /\ SlugIdle
    /\ FunIdle
PollSpec == PollSpecInit /\ [][PollNext]_vars

\* page generation with its size measurements, for each plan of SizePlans
SizeSpecInit ==
    /\ SizeInit
    /\ PollIdle
    /\ BuildIdle
    /\ SlugIdle
    /\ FunIdle
SizeSpec == SizeSpecInit /\ [][SizeNext]_vars

(***************************************************************************)
(* Properties                                                              *)
(***************************************************************************)
\* the slug map of the running build has been built
SlugMapBuilt == pc \in {"save", "prepare", "copy", "home", "items", "404", "rss", "done"}

\* saveSlugMappings of the running build has returned
MappingsSaved == pc \in {"prepare", "copy", "home", "items", "404", "rss", "done"}

\* the slug createSlugMap gives the i-th item of the fetched collection
slugOfItem(i) == Str(generateSlug(createSlugMapSource(channelData.contents[i])))

\* the last item of the fetched collection, in its order, with slug k
lastWithSlug(k) ==
    LET c == channelData.contents
        hits == {i \in 1..Len(c) : slugOfItem(i) = k}
    IN  c[CHOOSE i \in hits : \A j \in hits : j <= i]

\* C1: every key of the slug map is a non-empty string, for every item
\* collection.
C1_SlugMapKeysNonEmpty ==
    SlugMapBuilt => \A k \in mapKeys(slugMap) : k # ""

\* C2: the paths of the page writes of one build (home page, item pages, 404
\* page) are pairwise distinct, so no page write overwrites another page of
\* the same build.
C2_PagePathsDistinct ==
    \A i, j \in 1..Len(written) : i # j => written[i] # written[j]

\* C3: createSlugMap is a last-write-wins fold over the collection: its keys
\* are exactly the slugs of the items, each key holds the last item with that
\* slug, its size is the number of distinct slugs, at most the item count, and
\* smaller exactly when two items share a slug.
C3_SlugMapLastWriteWins ==
    SlugMapBuilt =>
        LET c == channelData.contents
            slugs == {slugOfItem(i) : i \in 1..Len(c)}
        IN  /\ mapKeys(slugMap) = slugs
            /\ \A k \in mapKeys(slugMap) : mapGet(slugMap, k) = lastWithSlug(k)
            /\ Len(slugMap) = Cardinality(slugs)
            /\ Len(slugMap) <= Len(c)
            /\ (Len(slugMap) < Len(c)) <=>
                   (\E i, j \in 1..Len(c) : i # j /\ slugOfItem(i) = slugOfItem(j))

\* C3, its case: two items of the collection share a slug and the map holds
\* the later one
C3_Witness ==
    /\ SlugMapBuilt
    /\ Len(channelData.contents) = 2
    /\ Len(slugMap) = 1
    /\ slugMap[1].item.id = 2

\* C4: for every text the callers can pass (a text that is not blank), the
\* output of generateSlug matches ^[a-z0-9]+(-[a-z0-9]+)*$ and is at most 100
\* characters long.
C4_SlugMatchesPattern ==
    (sPc # "in" /\ ~IsBlank(sIn)) =>
        /\ MatchesSlugPattern(sOut)
        /\ Len(sOut) <= SlugMaxLen

\* C5: generateSlug is idempotent on every non-empty text:
\* generateSlug(generateSlug(x)) = generateSlug(x).
C5_SlugIdempotent ==
    (sPc = "twice" /\ sIn # <<>>) => sOut2 = sOut

\* C6: createSlugMap, saveSlugMappings and the home-page links derive the
\* slug of every item from the same source, so the persisted slug-map file has
\* the key set of the in-memory slug map, each key with the identifier (and
\* the source) of the item the map holds for it, and the home page links each
\* item to the slug createSlugMap gave it.
C6_SlugDerivationsAgree ==
    /\ SlugMapBuilt =>
          \A i \in 1..Len(channelData.contents) :
              LET item == channelData.contents[i]
              IN  /\ saveSlugMappingsSource(item) = createSlugMapSource(item)
                  /\ renderHomePageSource(item) = createSlugMapSource(item)
    /\ (MappingsSaved /\ mappingFile.exists) =>
          /\ DOMAIN mappingFile.content = mapKeys(slugMap)
          /\ \A k \in mapKeys(slugMap) :
                /\ mappingFile.content[k].id = mapGet(slugMap, k).id
                /\ mappingFile.content[k].title =
                       Str(createSlugMapSource(mapGet(slugMap, k)))
    /\ (pc = "items" /\ entryIdx = 0) =>
          buildDir.files[homeFilePath].links =
              [i \in 1..Len(channelData.contents) |-> slugOfItem(i)]

\* C6, its case: the home page of a collection with a title-derived and a
\* content-derived slug has been written after the slug map was persisted
C6_Witness ==
    /\ pc = "items"
    /\ entryIdx = 0
    /\ mappingFile.exists
    /\ Len(slugMap) = 2
    /\ \E i \in 1..Len(channelData.contents) : IsBlank(channelData.contents[i].title)

\* the item page of directory `name` is in the output directory
hasItemPage(name) == <<name, "index.html">> \in DOMAIN buildDir.files

\* the process is about to exit, or has exited, with status 0
BuildSucceeded == pc = "done" \/ (pc = "exited" /\ exitCode = 0)

\* C7: after a successful build the output directory holds <slug>/index.html
\* exactly for the keys of that build's slug map, whatever it held before, and
\* no step of any build removes or changes an entry below node_modules or .git.
C7_OnlyCurrentItemPages ==
    /\ [](BuildSucceeded =>
            \A name \in (topLevelNames(buildDir.files) \cup mapKeys(slugMap)) \ {""} :
                hasItemPage(name) <=> name \in mapKeys(slugMap))
    /\ [][\A p \in DOMAIN buildDir.files :
              p[1] \in KeptNames =>
                  /\ p \in DOMAIN buildDir'.files
                  /\ buildDir'.files[p] = buildDir.files[p]]_vars

\* C7, its case: a build over a directory that held an old item page and a
\* checkout has succeeded
C7_Witness ==
    /\ pc = "exited"
    /\ exitCode = 0
    /\ Len(slugMap) = 2
    /\ <<".git", "HEAD">> \in DOMAIN buildDir.files
    /\ ~hasItemPage("old")

\* C8: the steps of a build complete in the order prepare, copy, home, items,
\* 404; once a step has failed no later step runs and the process exits with
\* status 1; the process exits with status 0 only after all five completed.
C8_StepsInOrder ==
    /\ [](/\ Len(stepLog) <= Len(Steps)
          /\ \A i \in 1..Len(stepLog) : stepLog[i] = Steps[i]
          /\ (pc = "done" \/ exitCode = 0) => stepLog = Steps)
    /\ [][pc = "failed" =>
              /\ pc' = "exited"
              /\ exitCode' = 1
              /\ UNCHANGED <<stepLog, written, buildDir, mappingFile>>]_vars

\* C8, its case: a build whose home page step failed has exited
C8_Witness ==
    /\ pc = "exited"
    /\ exitCode = 1
    /\ stepLog = <<"prepare", "copy">>

\* C9: fetchChannelData asks the client first and the direct fetch at most
\* once, only after the client failed; it returns the channel of the first
\* reply that is a success, and raises only after both failed, which ends the
\* build before any step of it.
C9_FetchAtMostTwice ==
    /\ Len(responses) <= 2
    /\ \A i \in 1..Len(responses) : responses[i].transport = <<"client", "fetch">>[i]
    /\ Len(responses) = 2 => ~responses[1].ok
    /\ pc = "createSlugMap" =>
          /\ responses # <<>>
          /\ responses[Len(responses)].ok
          /\ channelData = responses[Len(responses)].chan
    /\ pc = "fallback" => (Len(responses) = 1 /\ ~responses[1].ok)
    /\ (pc \in {"failed", "exited"} /\ responses # <<>>) =>
          /\ Len(responses) = 2
          /\ ~responses[2].ok
          /\ stepLog = <<>>
          /\ written = <<>>
          /\ exitCode \in {-1, 1}

\* C9, its case: the client failed and the direct fetch returned a channel
C9_Witness ==
    /\ pc = "createSlugMap"
    /\ Len(responses) = 2
    /\ channelData.contents # <<>>

\* C10: once saveSlugMappings has written the slug-map file, the file holds
\* exactly the entries derived from the item collection of the running build,
\* whatever it held before the build.
C10_MappingsRegenerated ==
    (MappingsSaved /\ mappingFile.exists) =>
        LET c == channelData.contents
        IN  /\ DOMAIN mappingFile.content = {slugOfItem(i) : i \in 1..Len(c)}
            /\ \A k \in DOMAIN mappingFile.content :
                  LET item == lastWithSlug(k)
                  IN  mappingFile.content[k] =
                          [id |-> item.id,
                           title |-> Str(createSlugMapSource(item)),
                           class |-> item.class,
                           original_title |-> Str(item.title)]

\* C10, its case: the file has been written by a build over a collection of
\* two items
C10_Witness ==
    /\ pc = "prepare"
    /\ mappingFile.exists
    /\ Len(channelData.contents) = 2

\* generateHomePage of the running build has just written the home page
HomePageWritten == pc = "items" /\ entryIdx = 0

\* the home page generateHomePage wrote
homePage == buildDir.files[homeFilePath]

\* the item of the fetched collection with identifier id
itemOfId(id) == channelData.contents[id]

\* C11: in every build the feed is generated after the slug map of that build
\* has been persisted, and the identifier-to-slug table of the feed is the one
\* of the file that build wrote, never that of a file left by an earlier build.
C11_FeedReadsThisBuildsSlugMap ==
    feed.made =>
        /\ mappingFile.exists
        /\ mappingFile.content = slugMappings(channelData.contents)
        /\ feed.idToSlug = idToSlug(mappingFile.content)

C13_OneBlockPerItem ==
    HomePageWritten =>
        LET blocks == homePage.blocks
        IN  /\ Len(blocks) = Len(channelData.contents)
            /\ \A i \in 1..Len(channelData.contents) :
                  Cardinality({p \in 1..Len(blocks) : blocks[p].id = i}) = 1

\* C13, its case: two items share a slug, the slug map has one entry and the
\* page two blocks
C13_Witness ==
    /\ HomePageWritten
    /\ Len(channelData.contents) = 2
    /\ Len(slugMap) = 1
    /\ Len(homePage.blocks) = 2

\* C14: the slug in the link of every block of the home page is a key of the
\* slug map; items with the same slug have the same link; and after a
\* successful build the page a link leads to is the item page of the item the
\* slug map holds for that slug.
C14_HomeLinksLeadToItemPages ==
    /\ HomePageWritten =>
          /\ \A p \in 1..Len(homePage.blocks) :
                /\ homePage.blocks[p].slug \in mapKeys(slugMap)
                /\ homePage.blocks[p].slug = slugOfItem(homePage.blocks[p].id)
          /\ \A p, q \in 1..Len(homePage.blocks) :
                slugOfItem(homePage.blocks[p].id) = slugOfItem(homePage.blocks[q].id)
                    => homePage.blocks[p].slug = homePage.blocks[q].slug
    /\ BuildSucceeded =>
          \A i \in 1..Len(channelData.contents) :
              LET link == homeBlock(channelData.contents[i]).slug
              IN  /\ link \in mapKeys(slugMap)
                  /\ itemFilePath(link) \in DOMAIN buildDir.files
                  /\ buildDir.files[itemFilePath(link)] =
                         ItemPage(mapGet(slugMap, link))
                  /\ mapGet(slugMap, link) = lastWithSlug(link)

\* C14, its case: a build over two items with the same slug has succeeded
C14_Witness ==
    /\ pc = "exited"
    /\ exitCode = 0
    /\ Len(channelData.contents) = 2
    /\ Len(slugMap) = 1
    /\ slugMap[1].slug # ""

\* C17: the feed holds exactly the Text and Link items, latest update first,
\* and links each item to the slug-map key the loaded file has for its
\* identifier, or to the identifier when the file has no entry for it.
C17_FeedItemsAndLinks ==
    feed.made =>
        LET c == channelData.contents
            wanted == {i \in 1..Len(c) : c[i].class \in {"Text", "Link"}}
        IN  /\ Len(feed.items) = Cardinality(wanted)
            /\ {feed.items[p].id : p \in 1..Len(feed.items)} = wanted
            /\ \A p, q \in 1..Len(feed.items) :
                  p < q => itemOfId(feed.items[p].id).updated_at
                               >= itemOfId(feed.items[q].id).updated_at
            /\ \A p \in 1..Len(feed.items) :
                  feed.items[p].link =
                      IF feed.items[p].id \in DOMAIN feed.idToSlug
                      THEN feed.idToSlug[feed.items[p].id]
                      ELSE Str(numberToText(feed.items[p].id))

\* the block has the shape the structured rendering expects
expectedShape(block) ==
    /\ block.isObject
    /\ block.hasContent
    /\ \/ block.type = "text" /\ truthy(block.text)
       \/ block.type = "image" /\ truthy(block.src)

\* C15: whatever the class of an item and whichever payload fields are
\* missing or of the wrong type, processItemContent returns an HTML fragment
\* and never raises, so no classification failure stops generateItemPages.
C15_ContentNeverRaises ==
    /\ fPc # "raised"
    /\ \A k \in 1..Len(ret) : ~ret[k].raised /\ ret[k].html # <<>>
    /\ fPc = "done" => Len(ret) = Len(arg)

\* C15, its case: the classification of the first of two items failed, its
\* page shows the error fragment, and the page of the second was rendered too
C15_Witness ==
    /\ fPc = "done"
    /\ Len(arg) = 2
    /\ arg[1].content.value.kind = "number"
    /\ ret[1].html = Div("error", <<"Error processing content">>)
    /\ ret[2].html # <<>>

\* C20: a Text item whose content parses as a JSON array none of whose
\* elements has the expected block shape is rendered by the fallback path: the
\* whole content as markdown after the headline promotion.
C20_OtherShapesFallBack ==
    \A k \in 1..Len(ret) :
        LET content == arg[k].content
        IN  (/\ arg[k].class = "Text"
             /\ content.json.ok
             /\ \A b \in 1..Len(content.json.blocks) :
                    ~expectedShape(content.json.blocks[b]))
            => ret[k].html \in { markdownContent(content.value.text, ok) :
                                     ok \in BOOLEAN }

\* the attributes an anchor is to get: BlankTarget when its href is an
\* absolute http(s) URL and it has no target attribute
wantedBlank(a) ==
    IF /\ \E i \in 1..Len(a) : a[i] \in ExternalHrefs
       /\ \A i \in 1..Len(a) : a[i] # TargetSelf
    THEN BlankTarget
    ELSE <<>>

\* C16: addTargetBlankToExternalLinks appends target="_blank" rel="noopener
\* noreferrer" to every anchor whose href is an absolute http:// or https://
\* URL and that has no target attribute, and leaves every other anchor as it
\* is.
C16_BlankTargetOnExternalAnchors ==
    fPc = "returned" => ret = anchorsText(anchorsOf(arg), wantedBlank)


(***************************************************************************)
(* The poller                                                              *)
(***************************************************************************)
\* the run has read both counts and none is cached or they differ
countChanged ==
    /\ poller.currentCount.kind = "number"
    /\ \/ poller.previousCount.kind \in {"null", "NaN"}
       \/ /\ poller.previousCount.kind = "number"
          /\ poller.previousCount.n # poller.currentCount.n

C19_SizesWrittenBeforeExit ==
    (sizing.pc = "exited" /\ sizing.exitCode = 0 /\ sizing.reported)
        => /\ sizing.pending = {}
           /\ \A i \in 1..Len(sizing.pages) : sizing.pages[i].sized


(***************************************************************************)
(* The description of an item                                              *)
(***************************************************************************)
\* the lines of the description the functions were called with
argLines == IF arg.given THEN splitLines(arg.text) ELSE <<>>

\* w occurs in s
contains(s, w) == \E i \in 1..Len(s) : i + Len(w) - 1 <= Len(s) /\ SubSeq(s, i, i + Len(w) - 1) = w

\* the trimmed line is "pin:" and "top", in any letter case
pinLine(line) ==
    LET t == toLowerCase(trim(line))
    IN  /\ Len(t) >= 4
        /\ SubSeq(t, 1, 4) = <<"p", "i", "n", ":">>
        /\ trim(SubSeq(t, 5, Len(t))) = <<"t", "o", "p">>

\* the trimmed line is key, colon and a value that is not empty
directiveOf(line, key) ==
    LET t == trim(line)
    IN  /\ Len(t) > Len(key) + 1
        /\ toLowerCase(SubSeq(t, 1, Len(key))) = key
        /\ t[Len(key) + 1] = ":"
directive(line) == \E key \in MetadataKeys : directiveOf(line, key)

\* C21: processItemDescription returns isPinned = TRUE exactly when some
\* line of the description, trimmed, is a pin directive (key in any letter
\* case) whose value is "top" (any letter case), FALSE for every other
\* description, an empty and an absent one included, and no pin line occurs
\* in the returned html.
C21_PinnedIffPinTopLine ==
    fPc \in {"parsed", "styled"} =>
        /\ ret.parsed.isPinned <=> \E i \in 1..Len(argLines) : pinLine(argLines[i])
        /\ \A i \in 1..Len(argLines) :
              pinLine(argLines[i]) => ~contains(ret.parsed.html, trim(argLines[i]))

\* C21 witness: a description with prose and an indented upper-case pin line
\* was parsed as pinned, with html returned
C21_Witness ==
    /\ fPc = "parsed"
    /\ ret.parsed.isPinned
    /\ ret.parsed.html # <<>>
    /\ \E i \in 1..Len(argLines) :
          pinLine(argLines[i]) /\ argLines[i] # toLowerCase(trim(argLines[i]))

\* the prose lines of the description, trimmed, in their order
proseLines ==
    SelectSeq([i \in 1..Len(argLines) |-> trim(argLines[i])],
              LAMBDA t : t # <<>> /\ ~directive(t))

\* the fragments of the directive lines, in their order
directiveFragments ==
    SelectSeq([i \in 1..Len(argLines) |->
                  IF directive(argLines[i])
                  THEN metadataField(metadataMatch(trim(argLines[i])))
                  ELSE <<>>],
              LAMBDA field : field # <<>>)

\* C22: every non-blank line is handled in exactly one way: a line whose
\* trimmed text is key: value with a key of pin, colour, border, tags, author
\* (any letter case) and a non-empty value is left out of the prose, every
\* other non-blank line is in the prose in its original relative order; the
\* returned html is the metadata fragments in encounter order followed by the
\* prose block, and there is no prose wrapper when there is no prose line.
C22_FragmentsThenProse ==
    fPc \in {"parsed", "styled"} =>
        ret.parsed.html =
            addTargetBlankToExternalLinks(
                joined(directiveFragments
                           \o (IF proseLines = <<>> THEN <<>>
                               ELSE <<Div("markdown-content",
                                          marked(joined(proseLines, <<"\n", "\n">>)))>>),
                       <<"\n">>))

\* C22 witness: a prose line stands before a directive line that makes a
\* fragment, and a blank line stands between two lines
C22_Witness ==
    /\ fPc = "parsed"
    /\ Len(argLines) = 3
    /\ proseLines # <<>>
    /\ directiveFragments # <<>>
    /\ ~directive(argLines[1]) /\ trim(argLines[1]) # <<>>
    /\ trim(argLines[2]) = <<>>
    /\ directive(argLines[3])

\* the lines processItemDescription drops as directives of key
droppedAs(key) == {i \in 1..Len(argLines) : directiveOf(argLines[i], key)}
firstDropped(key) == CHOOSE i \in droppedAs(key) : \A j \in droppedAs(key) : i <= j
valueOfLine(line, key) ==
    LET t == trim(line) IN trim(SubSeq(t, Len(key) + 2, Len(t)))

\* C29: the description parser and the style extractor agree on colour and
\* border lines: whenever processItemDescription drops a line as a colour (or
\* border) directive, extractColourFromDescription returns a non-empty
\* backgroundColor (or borderColor), the trimmed value of the first such
\* line, lines with leading whitespace included.
C29_ParserAndExtractorAgree ==
    fPc = "styled" =>
        /\ droppedAs(<<"c", "o", "l", "o", "u", "r">>) # {} =>
              /\ ret.style.backgroundColor # <<>>
              /\ ret.style.backgroundColor =
                    valueOfLine(argLines[firstDropped(<<"c", "o", "l", "o", "u", "r">>)],
                                <<"c", "o", "l", "o", "u", "r">>)
        /\ droppedAs(<<"b", "o", "r", "d", "e", "r">>) # {} =>
              /\ ret.style.borderColor # <<>>
              /\ ret.style.borderColor =
                    valueOfLine(argLines[firstDropped(<<"b", "o", "r", "d", "e", "r">>)],
                                <<"b", "o", "r", "d", "e", "r">>)


(***************************************************************************)
(* renderTemplate                                                          *)
(***************************************************************************)
\* the value the mapping has for key, as its text; <<>> when it has none
dataText(data, key) ==
    LET at == {i \in 1..Len(data) : data[i].key = key}
    IN  IF at = {} THEN <<>> ELSE valueText(data[CHOOSE i \in at : TRUE].value)
hasKey(data, key) == \E i \in 1..Len(data) : data[i].key = key

\* the template with each of its tokens replaced once, from left to right,
\* by the text of the value of its key, and nothing that was put in looked at
\* again; the token of a key the mapping lacks becomes the empty text if
\* blankMissing and stays otherwise
RECURSIVE singlePass(_, _, _, _)
singlePass(s, i, data, blankMissing) ==
    IF i > Len(s) THEN <<>>
    ELSE LET keys == {key \in {KeyA, KeyB, KeyC} : placeholderEnd(s, i, key) # 0}
         IN  IF keys = {}
             THEN <<s[i]>> \o singlePass(s, i + 1, data, blankMissing)
             ELSE LET key == CHOOSE k \in keys : TRUE
                      e == placeholderEnd(s, i, key)
                  IN  (IF hasKey(data, key) THEN dataText(data, key)
                       ELSE IF blankMissing THEN <<>>
                       ELSE SubSeq(s, i, e))
                          \o singlePass(s, e + 1, data, blankMissing)

\* no value of the mapping holds a brace or a dollar sign
plainValues(data) ==
    \A i \in 1..Len(data) :
        \A j \in 1..Len(data[i].value.text) : data[i].value.text[j] \notin {"{", "$"}

\* C23: the output of renderTemplate holds no token left over from the
\* template: a token whose key has a truthy value in the mapping is replaced
\* by the string form of the value, a token whose key is missing from the
\* mapping or has a falsy value (0, the empty string) by the empty string.
\* Stated for mappings of plain values, where nothing that is put in can be
\* taken for a token or a replacement pattern.
C23_NoTokenLeftOver ==
    (fPc = "rendered" /\ plainValues(arg.data))
        => ret.template = singlePass(arg.template, 1, arg.data, TRUE)

\* C24: substitution is single-pass: the text put in as the value of one key
\* is never scanned for tokens, so a value that holds a token of another key
\* of the mapping is in the output as it is, whatever the order of the keys.
\* Stated for mappings without replacement patterns, tokens of missing keys
\* left as renderTemplate leaves them.
C24_SinglePass ==
    (fPc = "rendered"
        /\ \A i \in 1..Len(arg.data) :
              \A j \in 1..Len(arg.data[i].value.text) : arg.data[i].value.text[j] # "$")
        => ret.template = singlePass(arg.template, 1, arg.data, FALSE)


\* C25: once the build has written a page file, the file holds the page that
\* build rendered, with at most its size annotation changed: no measurement,
\* of the scan started when the size module is loaded or of the build, writes
\* back content it read before the page was written.
C25_NoStaleWriteBack ==
    \A i \in 1..Len(sizing.pages) :
        sizing.disk[<<sizing.pages[i].kind, sizing.pages[i].n>>] = "new"


\* C26: every change the poller detects leads to a successful deploy
\* trigger: when the call of the deploy hook failed in the run that detected
\* the change, a later run that reads the same count calls the hook again.
\* As a state predicate: a run that completed with the count of the last call
\* of the hook, that call having failed, has called the hook itself.
C26_FailedDeployIsRetried ==
    (/\ poller.pc = "ended"
     /\ poller.lastReply \in {"refused", "unreachable"}
     /\ poller.currentCount = Number(poller.lastCount))
        => poller.posted


\* the channel could not be fetched: the run is over and no page was generated
FetchFailed == sizing.pc \in {"exited", "returned"} /\ sizing.pages = <<>>

\* C27: when the channel fetch fails, the run changes nothing in the output
\* directory: no page file a previous build left there has been rewritten.
C27_FailedFetchLeavesOutputAlone ==
    FetchFailed => sizing.remarked = {}


\* C28: every item link of the feed of a successful build points to a path
\* for which that build generated an item page, whatever the items, two
\* items with the same slug included.
C28_FeedLinksLeadToItemPages ==
    (BuildSucceeded /\ feed.made) =>
        \A p \in 1..Len(feed.items) : hasItemPage(feed.items[p].link)


\* C30: saveSlugMappings never raises. Whatever the outcome of deleting and
\* writing the slug-map file, the build goes on to prepare the output
\* directory; and when the file was not written, the feed of the build finds
\* none of its items in the table it loads and links each by its identifier.
C30_SaveFailureOnlyLogged ==
    [][/\ pc = "save" => pc' = "prepare"
       /\ (pc = "rss" /\ ~mappingFile.exists /\ feed'.made) =>
              \A p \in 1..Len(feed'.items) :
                  /\ feed'.items[p].id \notin DOMAIN feed'.idToSlug
                  /\ feed'.items[p].link = Str(numberToText(feed'.items[p].id))]_vars

\* C30, its case: the slug-map file could not be written, and the build has
\* generated the pages and a feed with an item and exited with 0
C30_Witness ==
    /\ pc = "exited"
    /\ exitCode = 0
    /\ ~mappingFile.exists
    /\ feed.made
    /\ feed.items # <<>>
    /\ Len(slugMap) > 0

====
